---- MODULE Spec2Model ----
(***************************************************************************)
(* exercism-bench: the worker pool of run/worker, the paginated discovery  *)
(* of getSolutionUUIDs, the download phase of getSolutionCodes and the     *)
(* bench phase of benchCmd, as one state machine.  The main goroutine is   *)
(* tracked by mainpc, every worker goroutine by wk[w].  The extraction     *)
(* functions of the page text (extractSolutionCode, extractTestSuite,      *)
(* normalizeCode) are operators on character sequences, applied to a       *)
(* family of pages by ExtractSpec and NormalizeSpec.                       *)
(***************************************************************************)
EXTENDS Integers, Sequences, FiniteSets, TLC

\* ------------------------------------------------------------------ bounds
\* largest GOMAXPROCS value considered
MaxProcs == 2
\* largest page count announced by the first page's marker
MaxPages == 2
\* largest number of entries of the solutions directory
MaxFiles == 2

\* ------------------------------------------------------------------ inputs
\* match lists FindAllStringSubmatch can return for one group page
PageContents == { <<>>, <<"a">>, <<"a", "b">> }

\* what the first page can hold at the page-count marker: no marker, a number
\* that does not fit 64 bits, or a page count
Markers == {"absent", "overflow", "number"}

\* kinds of directory entry ioutil.ReadDir can report
EntryKinds == {"file", "dir"}

\* goroutine slots; one more than any pool size the flags can ask for
Workers == 1..(MaxProcs + 1)

PageNumbers == 0..(MaxPages + 1)

NoTask == [kind |-> "none"]

\* outcome of a page task's fetch, as the history variable got records it
NotFetched == [st |-> "none", ms |-> <<>>]
FetchFailed == [st |-> "failed", ms |-> <<>>]
Fetched(c) == [st |-> "ok", ms |-> c]

\* what a command logs as its result
Nothing == [what |-> "nothing", n |-> 0, rank |-> <<>>]
Total(n) == [what |-> "total", n |-> n, rank |-> <<>>]
Ranking(r) == [what |-> "ranking", n |-> 0, rank |-> r]

VARIABLES
    mainpc,           \* position of the main goroutine
    cmd,              \* command picked from the commands table
    concurrencyFlag,  \* -c
    tqSize,           \* capacity of the task queue
    spawned,          \* loop counter i of the worker start loop in run
    tq,               \* tasks buffered in the channel
    closed,           \* the channel was closed
    wk,               \* per worker: pc, task being run, matches left to insert
    wg,               \* counter of the current phase's WaitGroup
    mx,               \* holder of the current phase's mutex, 0 when free
    total,            \* page count parsed from the marker / solutions total
    idx,              \* loop counter i of the submit loop
    uuids,            \* identifier set (uuidMap)
    todo,             \* identifiers the range loop of getSolutionCodes has yet to visit
    count,            \* downloadCmd's progress counter
    stored,           \* identifiers whose solution file was written
    bnames,           \* benchmark names found in the test suite
    fis,              \* directory listing read by benchCmd
    sstats,           \* SolutionStats sequence of benchCmd
    tmpdirs,          \* bench tasks whose temp dir exists
    err,              \* error returned by the command
    printed,          \* what the command reported last
    submitted,        \* history: tasks sent on the queue
    finished,         \* history: tasks that ran to completion
    got,              \* history: per page number, the outcome of the task's fetch
    reqs,             \* history: per page number, how many task fetches asked for it
    marker,           \* history: what the first page held at the page-count marker
    progress,         \* history: progress values reported by the tasks
    failed,           \* history: tasks that logged an error and returned early
    exitCode,         \* status main hands to os.Exit, -1 while the process runs
    parts,            \* the pieces the solution page under extraction is built of
    extracted,        \* what the extraction function applied to that page returned
    out,              \* the lines of the report runBench is handed by the go tool
    bstats,           \* what runBench returned for that report
    unranked,         \* the SolutionStats sequence as the tasks appended it
    ranked            \* the ranking loop: names left, the sequence, the rankings printed

vars == << mainpc, cmd, concurrencyFlag, tqSize, spawned, tq, closed, wk, wg, mx,
           total, idx, uuids, todo, count, stored, bnames, fis, sstats, tmpdirs,
           err, printed, submitted, finished, got, reqs, marker, progress,
           failed, exitCode, parts, extracted, out, bstats, unranked, ranked >>

poolVars == << concurrencyFlag, tqSize, spawned >>
histVars == << submitted, finished, got, reqs, marker, progress >>
dlVars == << todo, count, stored >>
benchVars == << bnames, fis, sstats, tmpdirs >>
statVars == << out, bstats, unranked, ranked >>
\* the variables of the functions checked on their own
extractVars == << parts, extracted, statVars >>

\* ------------------------------------------------------------------ page text
\* A text is the sequence of its characters; positions are counted from 0 as
\* Go counts them.

\* "<div class='pane pane-2 test-suite'>"
testSuiteStartPattern ==
    << "<", "d", "i", "v", " ", "c", "l", "a", "s", "s", "=", "'", "p", "a", "n", "e", " ",
       "p", "a", "n", "e", "-", "2", " ", "t", "e", "s", "t", "-", "s", "u", "i", "t", "e",
       "'", ">" >>

\* "</div>"
testSuiteEndPattern ==
    << "<", "/", "d", "i", "v", ">" >>

\* "<code class='language-go'>"
codeStartPattern ==
    << "<", "c", "o", "d", "e", " ", "c", "l", "a", "s", "s", "=", "'", "l", "a", "n", "g",
       "u", "a", "g", "e", "-", "g", "o", "'", ">" >>

\* "</code>"
codeEndPattern ==
    << "<", "/", "c", "o", "d", "e", ">" >>

\* "<pre class='line-numbers solution-code'>" + codeStartPattern
solutionCodeStartPattern ==
    << "<", "p", "r", "e", " ", "c", "l", "a", "s", "s", "=", "'", "l", "i", "n", "e", "-",
       "n", "u", "m", "b", "e", "r", "s", " ", "s", "o", "l", "u", "t", "i", "o", "n", "-",
       "c", "o", "d", "e", "'", ">" >>
        \o codeStartPattern

\* codeEndPattern + "</pre>"
solutionCodeEndPattern ==
    codeEndPattern \o
        << "<", "/", "p", "r", "e", ">" >>

\* "<h3>"
testFileNameStartPattern ==
    << "<", "h", "3", ">" >>

\* "</h3>"
testFileNameEndPattern ==
    << "<", "/", "h", "3", ">" >>

\* the literal part of authorRE, "Avatar of "
authorPrefix ==
    << "A", "v", "a", "t", "a", "r", " ", "o", "f", " " >>

\* the characters ([[:word:]]|-) of authorRE matches
NameChars ==
    { "0", "1", "2", "3", "4", "5", "6", "7", "8", "9", "_", "-",
      "a", "b", "c", "d", "e", "f", "g", "h", "i", "j", "k", "l", "m",
      "n", "o", "p", "q", "r", "s", "t", "u", "v", "w", "x", "y", "z",
      "A", "B", "C", "D", "E", "F", "G", "H", "I", "J", "K", "L", "M",
      "N", "O", "P", "Q", "R", "S", "T", "U", "V", "W", "X", "Y", "Z" }

errNoSolutionCode == "no solution code"
errNoAuthorName == "no author name"
errNoTestSuite == "no test suite"

\* the five entities of normalizeCode's table, in the order of the literal
Replacements ==
    << [old |-> << "&", "a", "m", "p", ";" >>, new |-> << "&" >>],
       [old |-> << "&", "q", "u", "o", "t", ";" >>, new |-> << "\"" >>],
       [old |-> << "&", "l", "t", ";" >>, new |-> << "<" >>],
       [old |-> << "&", "g", "t", ";" >>, new |-> << ">" >>],
       [old |-> << "&", "#", "3", "9", ";" >>, new |-> << "'" >>] >>

NoParts == [author |-> << >>, code |-> << >>, suite |-> << >>]
NotExtracted ==
    [fn |-> "none", code |-> << >>, author |-> << >>, suite |-> {}, err |-> "nil"]

\* ------------------------------------------------------------------ helpers
Range(s) == { s[i] : i \in 1..Len(s) }

\* the queue size run computes: 1, or with -c the GOMAXPROCS value in force
\* after runtime.GOMAXPROCS(maxProcsFlag), here mp
TqSize(conc, mp) == IF conc THEN mp ELSE 1

\* the state of the program after construction, extraction aside
PoolInit ==
    /\ mainpc = "run"
    /\ cmd = "none"
    /\ concurrencyFlag = FALSE
    /\ tqSize = 0
    /\ spawned = 0
    /\ tq = <<>>
    /\ closed = FALSE
    /\ wk = [w \in Workers |-> [pc |-> "unstarted", t |-> NoTask, rest |-> <<>>]]
    /\ wg = 0
    /\ mx = 0
    /\ total = 0
    /\ idx = 0
    /\ uuids = {}
    /\ todo = {}
    /\ count = 0
    /\ stored = {}
    /\ bnames = <<>>
    /\ fis = <<>>
    /\ sstats = <<>>
    /\ tmpdirs = {}
    /\ err = "nil"
    /\ printed = Nothing
    /\ submitted = {}
    /\ finished = {}
    /\ got = [p \in PageNumbers |-> NotFetched]
    /\ reqs = [p \in PageNumbers |-> 0]
    /\ marker = "unread"
    /\ progress = <<>>
    /\ failed = {}
    /\ exitCode = -1

\* no report was handed to runBench, no sequence to the ranking loop
NotRanked == [todo |-> << >>, sstats |-> << >>, rankings |-> << >>]

NoStats ==
    /\ out = << >>
    /\ bstats = [fn |-> "none", made |-> FALSE, bstats |-> {}, err |-> "nil"]
    /\ unranked = << >>
    /\ ranked = NotRanked

Init ==
    /\ PoolInit
    /\ parts = NoParts
    /\ extracted = NotExtracted
    /\ NoStats

\* ------------------------------------------------------------------ run / worker
Commands == {"total", "download", "bench"}

\* a start loop running one iteration too many (i <= tqSize)
WorkerCountOffByOne(size) == size + 1

\* a start loop that starts no worker
WorkerCountNone(size) == 0

\* number of `go worker(tq)` statements the start loop of run executes
WorkerCount(size) == size

\* an exit status that is 1 whenever some task has failed
ExitCodeCountingTasks(e, f) ==
    IF e = "invalid usage" THEN 2
    ELSE IF e # "nil" \/ f # {} THEN 1
    ELSE 0

\* main: the status the process exits with once run has returned e; the tasks
\* f that failed are not looked at
ExitCode(e, f) ==
    IF e = "invalid usage" THEN 2
    ELSE IF e # "nil" THEN 1
    ELSE 0

\* run, up to the creation of the queue: the arguments name no command; main
\* prints the usage and exits
RunInvalidUsage ==
    /\ mainpc = "run"
    /\ mainpc' = "exit"
    /\ err' = "invalid usage"
    /\ exitCode' = ExitCode(err', failed)
    /\ UNCHANGED << cmd, poolVars, tq, closed, wk, wg, mx, total, idx, uuids, dlVars,
                    benchVars, printed, histVars,
                    failed, extractVars >>

\* run: command lookup, queue size, make(chan task, tqSize)
RunSetup ==
    /\ mainpc = "run"
    /\ \E c \in Commands, conc \in BOOLEAN, mp \in 1..MaxProcs :
          /\ cmd' = c
          /\ concurrencyFlag' = conc
          /\ tqSize' = TqSize(conc, mp)
    /\ mainpc' = "spawn"
    /\ UNCHANGED << spawned, tq, closed, wk, wg, mx, total, idx, uuids, dlVars, benchVars,
                    err, printed, histVars,
                    failed, exitCode, extractVars >>

\* run: one iteration of the loop starting the workers
SpawnWorker ==
    /\ mainpc = "spawn"
    /\ spawned < WorkerCount(tqSize)
    /\ spawned' = spawned + 1
    /\ wk' = [wk EXCEPT ![spawned + 1].pc = "idle"]
    /\ UNCHANGED << mainpc, cmd, concurrencyFlag, tqSize, tq, closed, wg, mx, total,
                    idx, uuids, dlVars, benchVars, err, printed, histVars,
                    failed, exitCode, extractVars >>

\* run: cmd(tq, args[2:])
CallCmd ==
    /\ mainpc = "spawn"
    /\ spawned >= WorkerCount(tqSize)
    /\ mainpc' = IF cmd = "bench" THEN "bench_names" ELSE "first_page"
    /\ UNCHANGED << cmd, poolVars, tq, closed, wk, wg, mx, total, idx, uuids, dlVars,
                    benchVars, err, printed, histVars,
                    failed, exitCode, extractVars >>

\* the command was given arguments of its own: it returns errInvalidUsage
CmdInvalidUsage ==
    /\ mainpc = "spawn"
    /\ spawned >= WorkerCount(tqSize)
    /\ mainpc' = "return"
    /\ err' = "invalid usage"
    /\ UNCHANGED << cmd, poolVars, tq, closed, wk, wg, mx, total, idx, uuids, dlVars,
                    benchVars, printed, histVars,
                    failed, exitCode, extractVars >>

\* run: the deferred close(tq), executed when cmd returns; main then exits
\* with the status of the error run returned
CloseQueue ==
    /\ mainpc = "return"
    /\ closed' = TRUE
    /\ mainpc' = "exit"
    /\ exitCode' = ExitCode(err, failed)
    /\ UNCHANGED << cmd, poolVars, tq, wk, wg, mx, total, idx, uuids, dlVars,
                    benchVars, err, printed, histVars,
                    failed, extractVars >>

\* a queue that never makes the sender wait
CanSendAlways == TRUE

\* tq <- task: the send completes only while the buffer has room
CanSend == Len(tq) < tqSize

\* first step of a task's body
StartPc(t) ==
    CASE t.kind = "page"  -> "fetch"
      [] t.kind = "code"  -> "fetch"
      [] t.kind = "bench" -> "tempdir"

\* a receive that leaves the task in the queue
TakeWithoutRemoving(w) ==
    /\ wk[w].pc = "idle"
    /\ tq # <<>>
    /\ wk' = [wk EXCEPT ![w] = [pc |-> StartPc(Head(tq)), t |-> Head(tq), rest |-> <<>>]]
    /\ UNCHANGED << mainpc, cmd, poolVars, tq, closed, wg, mx, total, idx, uuids, dlVars,
                    benchVars, err, printed, histVars,
                    failed, exitCode, extractVars >>

\* worker: t, ok := <-wq with a task buffered; t() starts
Take(w) ==
    /\ wk[w].pc = "idle"
    /\ tq # <<>>
    /\ tq' = Tail(tq)
    /\ wk' = [wk EXCEPT ![w] = [pc |-> StartPc(Head(tq)), t |-> Head(tq), rest |-> <<>>]]
    /\ UNCHANGED << mainpc, cmd, poolVars, closed, wg, mx, total, idx, uuids, dlVars,
                    benchVars, err, printed, histVars,
                    failed, exitCode, extractVars >>

\* a worker that returns as soon as it finds the queue empty
WorkerExitOnEmpty(w) ==
    /\ wk[w].pc = "idle"
    /\ tq = <<>>
    /\ wk' = [wk EXCEPT ![w].pc = "exited"]
    /\ UNCHANGED << mainpc, cmd, poolVars, tq, closed, wg, mx, total, idx, uuids,
                    dlVars, benchVars, err, printed, histVars,
                    failed, exitCode, extractVars >>

\* worker: the receive reports ok = false on the closed, drained queue
WorkerExit(w) ==
    /\ wk[w].pc = "idle"
    /\ tq = <<>>
    /\ closed
    /\ wk' = [wk EXCEPT ![w].pc = "exited"]
    /\ UNCHANGED << mainpc, cmd, poolVars, tq, closed, wg, mx, total, idx, uuids,
                    dlVars, benchVars, err, printed, histVars,
                    failed, exitCode, extractVars >>

\* a worker that returns after its first task instead of looping
WorkerReturns == [pc |-> "exited", t |-> NoTask, rest |-> <<>>]

\* the worker state after t() returned: back at the receive
Idle == [pc |-> "idle", t |-> NoTask, rest |-> <<>>]

\* a task that enters the guarded section without waiting for the mutex
LockNoWait(w) ==
    /\ wk[w].pc = "lock"
    /\ mx' = w
    /\ wk' = [wk EXCEPT ![w].pc = "cs"]
    /\ UNCHANGED << mainpc, cmd, poolVars, tq, closed, wg, total, idx, uuids, dlVars,
                    benchVars, err, printed, histVars,
                    failed, exitCode, extractVars >>

\* a task that leaves the guarded section without releasing the mutex
UnlockMissing(w) == w

\* mx.Unlock() by the task run by w: the holder afterwards
Unlock(w) == 0

\* sync.Mutex.Lock of the phase's mutex by the task run by w
Lock(w) ==
    /\ wk[w].pc = "lock"
    /\ mx = 0
    /\ mx' = w
    /\ wk' = [wk EXCEPT ![w].pc = "cs"]
    /\ UNCHANGED << mainpc, cmd, poolVars, tq, closed, wg, total, idx, uuids, dlVars,
                    benchVars, err, printed, histVars,
                    failed, exitCode, extractVars >>

\* ------------------------------------------------------------------ getSolutionUUIDs
\* page numbers counted from zero
PageParamZeroBased(n) == n

\* strconv.FormatUint(n+1, 10): the page number task n asks for
PageParam(n) == n + 1

PageTask(n) == [kind |-> "page", n |-> n]

\* a lookup that takes a missing or unparsable page count for zero pages
FirstPageResultLenient(ok, m, n) ==
    IF ~ok THEN [err |-> "download failed", total |-> 0]
    ELSE IF m = "number" THEN [err |-> "nil", total |-> n]
    ELSE [err |-> "nil", total |-> 0]

\* getSolutionPage and the page-count lookup on the first group page: the error
\* returned and the total parsed
FirstPageResult(ok, m, n) ==
    IF ~ok THEN [err |-> "download failed", total |-> 0]
    ELSE IF m = "absent" THEN [err |-> "can't find solution groups number", total |-> 0]
    ELSE IF m = "overflow" THEN [err |-> "value out of range", total |-> 0]
    ELSE [err |-> "nil", total |-> n]

\* a first fetch that also keeps the identifiers matched on the first page
GetFirstPageKeepingIds ==
    /\ mainpc = "first_page"
    /\ \E ok \in BOOLEAN, m \in Markers, n \in 0..MaxPages, c \in PageContents :
          LET r == FirstPageResult(ok, m, n) IN
          /\ marker' = IF ok THEN m ELSE "unread"
          /\ IF r.err # "nil" THEN
                 /\ err' = r.err
                 /\ mainpc' = "return"
                 /\ UNCHANGED << total, wg, mx, uuids, idx >>
             ELSE
                 /\ total' = r.total
                 /\ wg' = 0
                 /\ mx' = 0
                 /\ uuids' = Range(c)
                 /\ idx' = 0
                 /\ mainpc' = "submit_pages"
                 /\ UNCHANGED err
    /\ UNCHANGED << cmd, poolVars, tq, closed, wk, dlVars, benchVars, printed,
                    submitted, finished, got, reqs, progress,
                    failed, exitCode, extractVars >>

\* getSolutionUUIDs up to the scheduling loop
GetFirstPage ==
    /\ mainpc = "first_page"
    /\ \E ok \in BOOLEAN, m \in Markers, n \in 0..MaxPages :
          LET r == FirstPageResult(ok, m, n) IN
          /\ marker' = IF ok THEN m ELSE "unread"
          /\ IF r.err # "nil" THEN
                 /\ err' = r.err
                 /\ mainpc' = "return"
                 /\ UNCHANGED << total, wg, mx, uuids, idx >>
             ELSE
                 /\ total' = r.total
                 /\ wg' = 0
                 /\ mx' = 0
                 /\ uuids' = {}
                 /\ idx' = 0
                 /\ mainpc' = "submit_pages"
                 /\ UNCHANGED err
    /\ UNCHANGED << cmd, poolVars, tq, closed, wk, dlVars, benchVars, printed,
                    submitted, finished, got, reqs, progress,
                    failed, exitCode, extractVars >>

\* one iteration of the scheduling loop: wg.Add(1); tq <- func() {...}
SubmitPage ==
    /\ mainpc = "submit_pages"
    /\ idx < total
    /\ CanSend
    /\ wg' = wg + 1
    /\ tq' = Append(tq, PageTask(idx))
    /\ submitted' = submitted \cup {PageTask(idx)}
    /\ idx' = idx + 1
    /\ UNCHANGED << mainpc, cmd, poolVars, closed, wk, mx, total, uuids, dlVars,
                    benchVars, err, printed, finished, got, reqs, marker, progress,
                    failed, exitCode, extractVars >>

\* the scheduling loop ends
SubmitPagesDone ==
    /\ mainpc = "submit_pages"
    /\ idx >= total
    /\ mainpc' = "wait_pages"
    /\ UNCHANGED << cmd, poolVars, tq, closed, wk, wg, mx, total, idx, uuids, dlVars,
                    benchVars, err, printed, histVars,
                    failed, exitCode, extractVars >>

\* a barrier that does not wait
WaitNotBlocking == TRUE

\* wg.Wait() returns once the counter is zero
WaitReleased == wg = 0

\* wg.Wait(); return uuids, nil
WaitPages ==
    /\ mainpc = "wait_pages"
    /\ WaitReleased
    /\ mainpc' = "uuids_returned"
    /\ UNCHANGED << cmd, poolVars, tq, closed, wk, wg, mx, total, idx, uuids, dlVars,
                    benchVars, err, printed, histVars,
                    failed, exitCode, extractVars >>

\* a page task that stores its error in the error getSolutionUUIDs returns
PageTaskErrorShared(e) == "download failed"

\* the error of getSolutionUUIDs after a page task whose fetch failed or whose
\* page matched nothing: the task declares an err of its own, logs it and
\* returns, the outer e is untouched
PageTaskError(e) == e

\* page task: getSolutionPage returns, then FindAllStringSubmatch
PageFetch(w) ==
    /\ wk[w].pc = "fetch"
    /\ wk[w].t.kind = "page"
    /\ LET p == PageParam(wk[w].t.n) IN
       /\ reqs' = [reqs EXCEPT ![p] = @ + 1]
       /\ \E ok \in BOOLEAN, c \in PageContents :
             IF ~ok THEN
                 /\ got' = [got EXCEPT ![p] = FetchFailed]
                 /\ wk' = [wk EXCEPT ![w] = Idle]
                 /\ wg' = wg - 1
                 /\ finished' = finished \cup {wk[w].t}
                 /\ failed' = failed \cup {wk[w].t}
                 /\ err' = PageTaskError(err)
             ELSE IF c = <<>> THEN
                 /\ got' = [got EXCEPT ![p] = Fetched(c)]
                 /\ wk' = [wk EXCEPT ![w] = Idle]
                 /\ wg' = wg - 1
                 /\ finished' = finished \cup {wk[w].t}
                 /\ failed' = failed \cup {wk[w].t}
                 /\ err' = PageTaskError(err)
             ELSE
                 /\ got' = [got EXCEPT ![p] = Fetched(c)]
                 /\ wk' = [wk EXCEPT ![w].pc = "lock", ![w].rest = c]
                 /\ UNCHANGED << wg, finished, failed, err >>
    /\ UNCHANGED << mainpc, cmd, poolVars, tq, closed, mx, total, idx, uuids, dlVars,
                    benchVars, printed, submitted, marker, progress,
                    exitCode, extractVars >>

\* an insert that replaces the set by the new identifier
InsertedAlone(set, id) == {id}

\* uuids[ms[1]] = struct{}{}
Inserted(set, id) == set \cup {id}

\* page task: uuids[ms[1]] = struct{}{}; mx.Unlock(); next match or return
PageInsert(w) ==
    /\ wk[w].pc = "cs"
    /\ wk[w].t.kind = "page"
    /\ uuids' = Inserted(uuids, Head(wk[w].rest))
    /\ mx' = Unlock(w)
    /\ IF Tail(wk[w].rest) = <<>> THEN
           /\ wk' = [wk EXCEPT ![w] = Idle]
           /\ wg' = wg - 1
           /\ finished' = finished \cup {wk[w].t}
       ELSE
           /\ wk' = [wk EXCEPT ![w].pc = "lock", ![w].rest = Tail(@)]
           /\ UNCHANGED << wg, finished >>
    /\ UNCHANGED << mainpc, cmd, poolVars, tq, closed, total, idx, dlVars,
                    benchVars, err, printed, submitted, got, reqs, marker, progress,
                    failed, exitCode, extractVars >>

\* ------------------------------------------------------------------ totalCmd
TotalPrint ==
    /\ mainpc = "uuids_returned"
    /\ cmd = "total"
    /\ printed' = Total(Cardinality(uuids))
    /\ mainpc' = "return"
    /\ UNCHANGED << cmd, poolVars, tq, closed, wk, wg, mx, total, idx, uuids, dlVars,
                    benchVars, err, histVars,
                    failed, exitCode, extractVars >>

\* ------------------------------------------------------------------ downloadCmd / getSolutionCodes
CodeTask(u) == [kind |-> "code", uuid |-> u]

\* downloadCmd: the total is logged; count := 0; mx := sync.Mutex{}
DownloadPrint ==
    /\ mainpc = "uuids_returned"
    /\ cmd = "download"
    /\ printed' = Total(Cardinality(uuids))
    /\ count' = 0
    /\ mx' = 0
    /\ mainpc' = "test_suite"
    /\ UNCHANGED << cmd, poolVars, tq, closed, wk, wg, total, idx, uuids, todo, stored,
                    benchVars, err, histVars,
                    failed, exitCode, extractVars >>

\* a getSolutionCodes that keeps the error of the test suite and schedules the
\* downloads all the same
GetTestSuiteThenSchedule ==
    /\ mainpc = "test_suite"
    /\ \E mkdir \in BOOLEAN, fetch \in BOOLEAN, extract \in BOOLEAN :
          err' = IF ~mkdir THEN "mkdir failed"
                 ELSE IF uuids # {} /\ ~fetch THEN "download failed"
                 ELSE IF uuids # {} /\ ~extract THEN "no test suite"
                 ELSE err
    /\ wg' = 0
    /\ todo' = uuids
    /\ mainpc' = "submit_codes"
    /\ UNCHANGED << cmd, poolVars, tq, closed, wk, mx, total, idx, uuids, count, stored,
                    benchVars, printed, histVars,
                    failed, exitCode, extractVars >>

\* getSolutionCodes up to the scheduling loop: MkdirAll, then the test suite taken
\* from the page of the first identifier the range loop yields
GetTestSuite ==
    /\ mainpc = "test_suite"
    /\ \E mkdir \in BOOLEAN, fetch \in BOOLEAN, extract \in BOOLEAN :
          IF ~mkdir THEN
              /\ err' = "mkdir failed"
              /\ mainpc' = "return"
              /\ UNCHANGED << wg, todo >>
          ELSE IF uuids # {} /\ ~fetch THEN
              /\ err' = "download failed"
              /\ mainpc' = "return"
              /\ UNCHANGED << wg, todo >>
          ELSE IF uuids # {} /\ ~extract THEN
              /\ err' = "no test suite"
              /\ mainpc' = "return"
              /\ UNCHANGED << wg, todo >>
          ELSE
              /\ wg' = 0
              /\ todo' = uuids
              /\ mainpc' = "submit_codes"
              /\ UNCHANGED err
    /\ UNCHANGED << cmd, poolVars, tq, closed, wk, mx, total, idx, uuids, count, stored,
                    benchVars, printed, histVars,
                    failed, exitCode, extractVars >>

\* one iteration of `for k := range uuids`: wg.Add(1); tq <- func() {...}
SubmitCode ==
    /\ mainpc = "submit_codes"
    /\ CanSend
    /\ \E k \in todo :
          /\ todo' = todo \ {k}
          /\ tq' = Append(tq, CodeTask(k))
          /\ submitted' = submitted \cup {CodeTask(k)}
    /\ wg' = wg + 1
    /\ UNCHANGED << mainpc, cmd, poolVars, closed, wk, mx, total, idx, uuids, count,
                    stored, benchVars, err, printed, finished, got, reqs, marker, progress,
                    failed, exitCode, extractVars >>

SubmitCodesDone ==
    /\ mainpc = "submit_codes"
    /\ todo = {}
    /\ mainpc' = "wait_codes"
    /\ UNCHANGED << cmd, poolVars, tq, closed, wk, wg, mx, total, idx, uuids, dlVars,
                    benchVars, err, printed, histVars,
                    failed, exitCode, extractVars >>

\* wg.Wait(); return nil
WaitCodes ==
    /\ mainpc = "wait_codes"
    /\ WaitReleased
    /\ mainpc' = "return"
    /\ UNCHANGED << cmd, poolVars, tq, closed, wk, wg, mx, total, idx, uuids, dlVars,
                    benchVars, err, printed, histVars,
                    failed, exitCode, extractVars >>

\* code task: getSolutionPage returns, then extractSolutionCode
CodeFetch(w) ==
    /\ wk[w].pc = "fetch"
    /\ wk[w].t.kind = "code"
    /\ \E fetch \in BOOLEAN, extract \in BOOLEAN :
          IF fetch /\ extract THEN
              /\ wk' = [wk EXCEPT ![w].pc = "write"]
              /\ UNCHANGED << wg, finished >>
          ELSE
              /\ wk' = [wk EXCEPT ![w] = Idle]
              /\ wg' = wg - 1
              /\ finished' = finished \cup {wk[w].t}
    /\ failed' = IF wk'[w].pc = "write" THEN failed ELSE failed \cup {wk[w].t}
    /\ UNCHANGED << mainpc, cmd, poolVars, tq, closed, mx, total, idx, uuids, dlVars,
                    benchVars, err, printed, submitted, got, reqs, marker, progress,
                    exitCode, extractVars >>

\* code task: ioutil.WriteFile returns; a failure is logged and the task goes on
CodeWrite(w) ==
    /\ wk[w].pc = "write"
    /\ \E ok \in BOOLEAN :
          stored' = IF ok THEN stored \cup {wk[w].t.uuid} ELSE stored
    /\ wk' = [wk EXCEPT ![w].pc = "lock"]
    /\ UNCHANGED << mainpc, cmd, poolVars, tq, closed, wg, mx, total, idx, uuids, todo,
                    count, benchVars, err, printed, histVars,
                    failed, exitCode, extractVars >>

\* a callback that takes c before the increment
CodeGotStale(w) ==
    /\ wk[w].pc = "cs"
    /\ wk[w].t.kind = "code"
    /\ count' = count + 1
    /\ mx' = Unlock(w)
    /\ progress' = Append(progress, count)
    /\ wk' = [wk EXCEPT ![w] = Idle]
    /\ wg' = wg - 1
    /\ finished' = finished \cup {wk[w].t}
    /\ UNCHANGED << mainpc, cmd, poolVars, tq, closed, total, idx, uuids, todo, stored,
                    benchVars, err, printed, submitted, got, reqs, marker,
                    failed, exitCode, extractVars >>

\* code task, inside got: count++; c := count; mx.Unlock(); the progress line
CodeGot(w) ==
    /\ wk[w].pc = "cs"
    /\ wk[w].t.kind = "code"
    /\ count' = count + 1
    /\ mx' = Unlock(w)
    /\ progress' = Append(progress, count + 1)
    /\ wk' = [wk EXCEPT ![w] = Idle]
    /\ wg' = wg - 1
    /\ finished' = finished \cup {wk[w].t}
    /\ UNCHANGED << mainpc, cmd, poolVars, tq, closed, total, idx, uuids, todo, stored,
                    benchVars, err, printed, submitted, got, reqs, marker,
                    failed, exitCode, extractVars >>

\* ------------------------------------------------------------------ benchCmd
\* what getBenchNames can find in the test suite
BenchNameLists == { <<>>, <<"BenchmarkA">>, <<"BenchmarkA", "BenchmarkB">> }

\* directory listings of the solutions directory
RECURSIVE Listings(_)
Listings(n) ==
    IF n = 0 THEN { <<>> }
    ELSE Listings(n - 1) \cup
         { Append(l, k) : l \in { x \in Listings(n - 1) : Len(x) = n - 1 }, k \in EntryKinds }

\* regular(fi)
Regular(kind) == kind = "file"

BenchTask(i) == [kind |-> "bench", f |-> i]

\* a check of the name count that never fires
NoBenchmarksIgnored(names) == FALSE

\* benchCmd: len(bnames) == 0
NoBenchmarks(names) == Len(names) = 0

\* benchCmd: getBenchNames
GetBenchNames ==
    /\ mainpc = "bench_names"
    /\ \E ok \in BOOLEAN, names \in BenchNameLists :
          IF ~ok THEN
              /\ err' = "read test suite failed"
              /\ mainpc' = "return"
              /\ UNCHANGED bnames
          ELSE IF NoBenchmarks(names) THEN
              /\ err' = "found 0 benchmarks"
              /\ mainpc' = "return"
              /\ UNCHANGED bnames
          ELSE
              /\ bnames' = names
              /\ mainpc' = "read_dir"
              /\ UNCHANGED err
    /\ UNCHANGED << cmd, poolVars, tq, closed, wk, wg, mx, total, idx, uuids, dlVars,
                    fis, sstats, tmpdirs, printed, histVars,
                    failed, exitCode, extractVars >>

\* benchCmd: ioutil.ReadDir, total := len(fis) - 1, the fresh wg, sstats and mx
ReadSolutionsDir ==
    /\ mainpc = "read_dir"
    /\ \E ok \in BOOLEAN, l \in Listings(MaxFiles) :
          IF ~ok THEN
              /\ err' = "read dir failed"
              /\ mainpc' = "return"
              /\ UNCHANGED << fis, total, wg, mx, sstats, idx >>
          ELSE IF Len(l) - 1 <= 0 THEN
              /\ fis' = l
              /\ total' = Len(l) - 1
              /\ err' = "found 0 solutions"
              /\ mainpc' = "return"
              /\ UNCHANGED << wg, mx, sstats, idx >>
          ELSE
              /\ fis' = l
              /\ total' = Len(l) - 1
              /\ wg' = 0
              /\ mx' = 0
              /\ sstats' = <<>>
              /\ idx' = 0
              /\ mainpc' = "submit_bench"
              /\ UNCHANGED err
    /\ UNCHANGED << cmd, poolVars, tq, closed, wk, uuids, dlVars, bnames, tmpdirs,
                    printed, histVars,
                    failed, exitCode, extractVars >>

\* one iteration of `for _, fi := range fis` on an entry that is no regular file
SkipEntry ==
    /\ mainpc = "submit_bench"
    /\ idx < Len(fis)
    /\ ~Regular(fis[idx + 1])
    /\ idx' = idx + 1
    /\ UNCHANGED << mainpc, cmd, poolVars, tq, closed, wk, wg, mx, total, uuids, dlVars,
                    benchVars, err, printed, histVars,
                    failed, exitCode, extractVars >>

\* one iteration on a regular file: wg.Add(1); tq <- func() {...}
SubmitBench ==
    /\ mainpc = "submit_bench"
    /\ idx < Len(fis)
    /\ Regular(fis[idx + 1])
    /\ CanSend
    /\ wg' = wg + 1
    /\ tq' = Append(tq, BenchTask(idx + 1))
    /\ submitted' = submitted \cup {BenchTask(idx + 1)}
    /\ idx' = idx + 1
    /\ UNCHANGED << mainpc, cmd, poolVars, closed, wk, mx, total, uuids, dlVars,
                    benchVars, err, printed, finished, got, reqs, marker, progress,
                    failed, exitCode, extractVars >>

SubmitBenchDone ==
    /\ mainpc = "submit_bench"
    /\ idx >= Len(fis)
    /\ mainpc' = "wait_bench"
    /\ UNCHANGED << cmd, poolVars, tq, closed, wk, wg, mx, total, idx, uuids, dlVars,
                    benchVars, err, printed, histVars,
                    failed, exitCode, extractVars >>

\* wg.Wait()
WaitBench ==
    /\ mainpc = "wait_bench"
    /\ WaitReleased
    /\ mainpc' = "rank"
    /\ UNCHANGED << cmd, poolVars, tq, closed, wk, wg, mx, total, idx, uuids, dlVars,
                    benchVars, err, printed, histVars,
                    failed, exitCode, extractVars >>

\* the ranking loop reads sstats for every benchmark name; return nil
PrintRanking ==
    /\ mainpc = "rank"
    /\ printed' = Ranking([i \in 1..Len(bnames) |-> sstats])
    /\ mainpc' = "return"
    /\ UNCHANGED << cmd, poolVars, tq, closed, wk, wg, mx, total, idx, uuids, dlVars,
                    benchVars, err, histVars,
                    failed, exitCode, extractVars >>

\* bench task: ioutil.TempDir returns
BenchTempDir(w) ==
    /\ wk[w].pc = "tempdir"
    /\ \E ok \in BOOLEAN :
          IF ok THEN
              /\ tmpdirs' = tmpdirs \cup {wk[w].t}
              /\ wk' = [wk EXCEPT ![w].pc = "copy"]
              /\ UNCHANGED << wg, finished >>
          ELSE
              /\ wk' = [wk EXCEPT ![w] = Idle]
              /\ wg' = wg - 1
              /\ finished' = finished \cup {wk[w].t}
              /\ UNCHANGED tmpdirs
    /\ failed' = IF wk'[w].pc = "copy" THEN failed ELSE failed \cup {wk[w].t}
    /\ UNCHANGED << mainpc, cmd, poolVars, tq, closed, mx, total, idx, uuids, dlVars,
                    bnames, fis, sstats, err, printed, submitted, got, reqs, marker, progress,
                    exitCode, extractVars >>

\* a step whose error branch lacks its return: the task goes on either way
AfterStepNoReturn(ok, next) == next

\* bench task: where the body goes after a step: on, or with the error logged
\* to the deferred calls
AfterStep(ok, next) == IF ok THEN next ELSE "cleanup"

\* bench task: copyFile of the solution and copyFiles of the test suite return
BenchCopy(w) ==
    /\ wk[w].pc = "copy"
    /\ \E ok \in BOOLEAN :
          /\ wk' = [wk EXCEPT ![w].pc = AfterStep(ok, "runbench")]
          /\ failed' = IF ok THEN failed ELSE failed \cup {wk[w].t}
    /\ UNCHANGED << mainpc, cmd, poolVars, tq, closed, wg, mx, total, idx, uuids, dlVars,
                    benchVars, err, printed, histVars,
                    exitCode, extractVars >>

\* bench task: runBench returns (the tool failed, no benchmarks, or the stats)
BenchRun(w) ==
    /\ wk[w].pc = "runbench"
    /\ \E ok \in BOOLEAN :
          /\ wk' = [wk EXCEPT ![w].pc = AfterStep(ok, "codesize")]
          /\ failed' = IF ok THEN failed ELSE failed \cup {wk[w].t}
    /\ UNCHANGED << mainpc, cmd, poolVars, tq, closed, wg, mx, total, idx, uuids, dlVars,
                    benchVars, err, printed, histVars,
                    exitCode, extractVars >>

\* bench task: getCodeSize returns
BenchCodeSize(w) ==
    /\ wk[w].pc = "codesize"
    /\ \E ok \in BOOLEAN :
          /\ wk' = [wk EXCEPT ![w].pc = AfterStep(ok, "lock")]
          /\ failed' = IF ok THEN failed ELSE failed \cup {wk[w].t}
    /\ UNCHANGED << mainpc, cmd, poolVars, tq, closed, wg, mx, total, idx, uuids, dlVars,
                    benchVars, err, printed, histVars,
                    exitCode, extractVars >>

\* bench task: sstats = append(sstats, st); count := len(sstats); mx.Unlock();
\* the progress line
BenchAppend(w) ==
    /\ wk[w].pc = "cs"
    /\ wk[w].t.kind = "bench"
    /\ sstats' = Append(sstats, [name |-> wk[w].t.f])
    /\ progress' = Append(progress, Len(sstats) + 1)
    /\ mx' = Unlock(w)
    /\ wk' = [wk EXCEPT ![w].pc = "cleanup"]
    /\ UNCHANGED << mainpc, cmd, poolVars, tq, closed, wg, total, idx, uuids, dlVars,
                    bnames, fis, tmpdirs, err, printed, submitted, finished, got, reqs, marker,
                    failed, exitCode, extractVars >>

\* a deferred removal that is never registered: the workspace stays
RemoveAllSkipped(dirs, t) == dirs

\* os.RemoveAll(tmp): the workspace of the task is gone
RemoveAll(dirs, t) == dirs \ {t}

\* bench task: the deferred os.RemoveAll(tmp), then the deferred wg.Done()
BenchCleanup(w) ==
    /\ wk[w].pc = "cleanup"
    /\ tmpdirs' = RemoveAll(tmpdirs, wk[w].t)
    /\ wk' = [wk EXCEPT ![w] = Idle]
    /\ wg' = wg - 1
    /\ finished' = finished \cup {wk[w].t}
    /\ UNCHANGED << mainpc, cmd, poolVars, tq, closed, mx, total, idx, uuids, dlVars,
                    bnames, fis, sstats, err, printed, submitted, got, reqs, marker, progress,
                    failed, exitCode, extractVars >>

\* ------------------------------------------------------------------ specification
MainStep ==
    \/ RunInvalidUsage \/ RunSetup \/ SpawnWorker \/ CallCmd \/ CmdInvalidUsage
    \/ CloseQueue
    \/ GetFirstPage \/ SubmitPage \/ SubmitPagesDone \/ WaitPages
    \/ TotalPrint
    \/ DownloadPrint \/ GetTestSuite \/ SubmitCode \/ SubmitCodesDone \/ WaitCodes
    \/ GetBenchNames \/ ReadSolutionsDir \/ SkipEntry \/ SubmitBench
    \/ SubmitBenchDone \/ WaitBench \/ PrintRanking

WorkerStep(w) ==
    \/ Take(w) \/ WorkerExit(w) \/ Lock(w)
    \/ PageFetch(w) \/ PageInsert(w)
    \/ CodeFetch(w) \/ CodeWrite(w) \/ CodeGot(w)
    \/ BenchTempDir(w) \/ BenchCopy(w) \/ BenchRun(w) \/ BenchCodeSize(w)
    \/ BenchAppend(w) \/ BenchCleanup(w)

Next == MainStep \/ \E w \in Workers : WorkerStep(w)

Spec == Init /\ [][Next]_vars

\* the Go scheduler runs every goroutine that can take a step
FairSpec == Spec /\ WF_vars(MainStep) /\ \A w \in Workers : WF_vars(WorkerStep(w))

\* ------------------------------------------------------------------ text functions
\* strings.Index: offset of the first occurrence of pat in in, -1 when absent
Index(in, pat) ==
    LET hits == { i \in 0..(Len(in) - Len(pat)) :
                    \A k \in 1..Len(pat) : in[i + k] = pat[k] }
    IN  IF hits = {} THEN -1 ELSE CHOOSE i \in hits : \A j \in hits : i <= j

\* the bounds check Go makes on in[lo:hi]; a slice expression outside it panics
InBounds(in, lo, hi) == 0 <= lo /\ lo <= hi /\ hi <= Len(in)

\* in[lo:hi]
Slice(in, lo, hi) == SubSeq(in, lo + 1, hi)

\* strings.ReplaceAll for a non-empty old: the non-overlapping occurrences of
\* old, left to right, each replaced by new
RECURSIVE ReplaceAll(_, _, _)
ReplaceAll(s, old, new) ==
    LET i == Index(s, old) IN
    IF i = -1 THEN s
    ELSE Slice(s, 0, i) \o new \o ReplaceAll(Slice(s, i + Len(old), Len(s)), old, new)

\* orders in which `for old, new := range rm` can visit the five table entries
Orders ==
    { o \in [1..Len(Replacements) -> 1..Len(Replacements)] :
        \A i, j \in 1..Len(Replacements) : i # j => o[i] # o[j] }

\* normalizeCode when the range loop visits the table in the order o
RECURSIVE normalizeCode(_, _)
normalizeCode(content, o) ==
    IF o = << >> THEN content
    ELSE normalizeCode(ReplaceAll(content, Replacements[Head(o)].old,
                                  Replacements[Head(o)].new), Tail(o))

\* entities that start the text s
EntitiesAt(s) ==
    { e \in 1..Len(Replacements) :
        /\ Len(Replacements[e].old) <= Len(s)
        /\ SubSeq(s, 1, Len(Replacements[e].old)) = Replacements[e].old }

\* html.UnescapeString on texts whose entities are those of the table: one
\* pass from the left, each entity decoded once, the decoded text not rescanned
RECURSIVE UnescapeString(_)
UnescapeString(s) ==
    IF s = << >> THEN << >>
    ELSE IF EntitiesAt(s) # {} THEN
        LET e == CHOOSE x \in EntitiesAt(s) : TRUE IN
        Replacements[e].new \o UnescapeString(Slice(s, Len(Replacements[e].old), Len(s)))
    ELSE << Head(s) >> \o UnescapeString(Tail(s))

\* offsets at which authorRE matches: the literal part followed by at least one
\* name character
AuthorHits(page) ==
    { i \in 0..(Len(page) - Len(authorPrefix) - 1) :
        /\ \A k \in 1..Len(authorPrefix) : page[i + k] = authorPrefix[k]
        /\ page[i + Len(authorPrefix) + 1] \in NameChars }

\* authorRE.FindStringSubmatch(page)[1]: the longest run of name characters
\* behind the leftmost match; the empty text stands for ms == nil
FindAuthor(page) ==
    IF AuthorHits(page) = {} THEN << >>
    ELSE LET i == CHOOSE x \in AuthorHits(page) : \A y \in AuthorHits(page) : x <= y
             from == i + Len(authorPrefix)
             to == CHOOSE e \in (from + 1)..Len(page) :
                       /\ \A k \in (from + 1)..e : page[k] \in NameChars
                       /\ (e = Len(page) \/ page[e + 1] \notin NameChars)
         IN  Slice(page, from, to)

\* ------------------------------------------------------------------ extraction
\* results of the extraction functions
Failure(e) == [code |-> << >>, author |-> << >>, suite |-> {}, err |-> e]
Solution(c, a) == [code |-> c, author |-> a, suite |-> {}, err |-> "nil"]
TestSuite(m) == [code |-> << >>, author |-> << >>, suite |-> m, err |-> "nil"]

\* a slice expression out of range stops the process
Panic == Failure("panic")

\* suite[name] = code on a map held as its set of (name, code) pairs
Put(suite, name, code) == { e \in suite : e[1] # name } \cup { << name, code >> }

NotFound == [match |-> << >>, out |-> << >>, panic |-> FALSE]

\* a getFirstMatch that forgets to step over the start pattern
getFirstMatchFromStart(in, sp, ep) ==
    LET sind == Index(in, sp)
        eind == Index(Slice(in, sind, Len(in)), ep)
    IN  IF sind = -1 \/ eind = -1 THEN NotFound
        ELSE [match |-> Slice(in, sind, sind + eind),
              out |-> Slice(in, sind + eind + Len(ep), Len(in)), panic |-> FALSE]

\* getFirstMatch: the text between the first sp and the first ep behind it, and
\* the text behind that ep; both empty when either pattern is missing
getFirstMatch(in, sp, ep) ==
    LET sind == Index(in, sp) + Len(sp)
        eind == Index(Slice(in, sind, Len(in)), ep)
    IN  IF Index(in, sp) = -1 THEN NotFound
        ELSE IF ~InBounds(in, sind, Len(in)) THEN [NotFound EXCEPT !.panic = TRUE]
        ELSE IF eind = -1 THEN NotFound
        ELSE IF ~InBounds(in, sind, sind + eind)
                  \/ ~InBounds(in, sind + eind + Len(ep), Len(in))
             THEN [NotFound EXCEPT !.panic = TRUE]
        ELSE [match |-> Slice(in, sind, sind + eind),
              out |-> Slice(in, sind + eind + Len(ep), Len(in)), panic |-> FALSE]

\* an extractSolutionCode that looks for the code before the author
extractSolutionCodeCodeFirst(solutionPage) ==
    LET ms == FindAuthor(solutionPage)
        m == getFirstMatch(solutionPage, solutionCodeStartPattern, solutionCodeEndPattern)
    IN  IF m.panic THEN Panic
        ELSE IF m.match = << >> THEN Failure(errNoSolutionCode)
        ELSE IF ms = << >> THEN Failure(errNoAuthorName)
        ELSE Solution(UnescapeString(m.match), UnescapeString(ms))

\* extractSolutionCode of the getFirstMatch variant
extractSolutionCode(solutionPage) ==
    LET ms == FindAuthor(solutionPage)
        m == getFirstMatch(solutionPage, solutionCodeStartPattern, solutionCodeEndPattern)
    IN  IF ms = << >> THEN Failure(errNoAuthorName)
        ELSE IF m.panic THEN Panic
        ELSE IF m.match = << >> THEN Failure(errNoSolutionCode)
        ELSE Solution(UnescapeString(m.match), UnescapeString(ms))

\* the for loop of extractTestSuite of the getFirstMatch variant, entered with
\* the text ts left to scan and the map filled so far
RECURSIVE TestFiles(_, _)
TestFiles(ts, suite) ==
    LET n == getFirstMatch(ts, testFileNameStartPattern, testFileNameEndPattern)
        c == getFirstMatch(n.out, codeStartPattern, codeEndPattern)
    IN  IF n.panic THEN Panic
        ELSE IF n.match = << >> THEN
            IF suite = {} THEN Failure(errNoTestSuite) ELSE TestSuite(suite)
        ELSE IF c.panic THEN Panic
        ELSE IF c.match = << >> THEN Failure(errNoTestSuite)
        ELSE TestFiles(c.out, Put(suite, UnescapeString(n.match), UnescapeString(c.match)))

\* extractTestSuite of the getFirstMatch variant
extractTestSuite(solutionPage) ==
    LET ts == getFirstMatch(solutionPage, testSuiteStartPattern, testSuiteEndPattern)
    IN  IF ts.panic THEN Panic
        ELSE IF ts.match = << >> THEN Failure(errNoTestSuite)
        ELSE TestFiles(ts.match, {})

\* extractSolutionCode of the variant that computes the offsets itself
extractSolutionCodeByIndex(solutionPage) ==
    LET ms == FindAuthor(solutionPage)
        start == Index(solutionPage, solutionCodeStartPattern)
        sind == start + Len(solutionCodeStartPattern)
        eind == Index(Slice(solutionPage, sind, Len(solutionPage)), solutionCodeEndPattern)
    IN  IF ms = << >> THEN Failure(errNoAuthorName)
        ELSE IF start = -1 THEN Failure(errNoSolutionCode)
        ELSE IF ~InBounds(solutionPage, sind, Len(solutionPage)) THEN Panic
        ELSE IF eind = -1 THEN Failure(errNoSolutionCode)
        ELSE IF ~InBounds(solutionPage, sind, sind + eind) THEN Panic
        ELSE Solution(UnescapeString(Slice(solutionPage, sind, sind + eind)), ms)

\* the for loop of extractTestSuite of that variant; behind the file name the
\* text is cut at sind+eind+len(testSuiteEndPattern)
RECURSIVE TestFilesByIndex(_, _)
TestFilesByIndex(ts, suite) ==
    LET start == Index(ts, testFileNameStartPattern)
        sind == start + Len(testFileNameStartPattern)
        eind == Index(Slice(ts, sind, Len(ts)), testFileNameEndPattern)
        cut == sind + eind + Len(testSuiteEndPattern)
        behind == Slice(ts, cut, Len(ts))
        cstart == Index(behind, codeStartPattern)
        csind == cstart + Len(codeStartPattern)
        ceind == Index(Slice(behind, csind, Len(behind)), codeEndPattern)
    IN  IF start = -1 THEN
            IF suite = {} THEN Failure(errNoTestSuite) ELSE TestSuite(suite)
        ELSE IF ~InBounds(ts, sind, Len(ts)) THEN Panic
        ELSE IF eind = -1 THEN Failure(errNoTestSuite)
        ELSE IF ~InBounds(ts, sind, sind + eind) \/ ~InBounds(ts, cut, Len(ts)) THEN Panic
        ELSE IF cstart = -1 THEN Failure(errNoTestSuite)
        ELSE IF ~InBounds(behind, csind, Len(behind)) THEN Panic
        ELSE IF ceind = -1 THEN Failure(errNoTestSuite)
        ELSE IF ~InBounds(behind, csind, csind + ceind)
                  \/ ~InBounds(behind, csind + ceind + Len(codeEndPattern), Len(behind))
             THEN Panic
        ELSE TestFilesByIndex(
                 Slice(behind, csind + ceind + Len(codeEndPattern), Len(behind)),
                 Put(suite, Slice(ts, sind, sind + eind),
                     UnescapeString(Slice(behind, csind, csind + ceind))))

\* extractTestSuite of that variant
extractTestSuiteByIndex(solutionPage) ==
    LET start == Index(solutionPage, testSuiteStartPattern)
        sind == start + Len(testSuiteStartPattern)
        eind == Index(Slice(solutionPage, sind, Len(solutionPage)), testSuiteEndPattern)
    IN  IF start = -1 THEN Failure(errNoTestSuite)
        ELSE IF ~InBounds(solutionPage, sind, Len(solutionPage)) THEN Panic
        ELSE IF eind = -1 THEN Failure(errNoTestSuite)
        ELSE IF ~InBounds(solutionPage, sind, sind + eind) THEN Panic
        ELSE TestFilesByIndex(Slice(solutionPage, sind, sind + eind), {})

\* "NO CODE"
noCode ==
    << "N", "O", " ", "C", "O", "D", "E" >>

\* extractSolutionCode of the normalizeCode variant up to its last statement;
\* the codeStartPattern and codeEndPattern of that variant are the
\* solution-code patterns
CodeBetweenPatterns(content) ==
    LET ind == Index(content, solutionCodeStartPattern)
        from == ind + Len(solutionCodeStartPattern)
        rest == Slice(content, from, Len(content))
        end == Index(rest, solutionCodeEndPattern)
    IN  IF ind = -1 THEN [st |-> "none", text |-> << >>]
        ELSE IF ~InBounds(content, from, Len(content)) THEN [st |-> "panic", text |-> << >>]
        ELSE IF end = -1 THEN [st |-> "none", text |-> << >>]
        ELSE IF ~InBounds(rest, 0, end) THEN [st |-> "panic", text |-> << >>]
        ELSE [st |-> "found", text |-> Slice(rest, 0, end)]

\* its last statement, return normalizeCode(content), on the outcome c of the
\* statements before; o is the order in which normalizeCode visits its table
NormalizedCode(c, o) ==
    IF c.st = "panic" THEN Panic
    ELSE IF c.st = "none" THEN Solution(noCode, << >>)
    ELSE Solution(normalizeCode(c.text, o), << >>)

\* extractSolutionCode of the normalizeCode variant
extractSolutionCodeNormalized(content, o) == NormalizedCode(CodeBetweenPatterns(content), o)

\* ------------------------------------------------------------------ extraction: pages
\* largest number of test files between the test-suite patterns of a page
MaxTestFiles == 2

\* the page up to the solution code: no author line, or the author bob
Authors == { << >>, authorPrefix \o << "b", "o", "b" >> }

\* solution codes as the page carries them: empty, plain, and with entities
\* ("&amp;lt;" is how the page spells the Go text "&lt;")
Payloads ==
    { << >>,
      << "x" >>,
      << "&", "a", "m", "p", ";", "l", "t", ";" >>,
      << "a", "&", "g", "t", ";", "b" >> }

\* the solution-code part of a page: absent, a payload between both patterns,
\* one without the end pattern, one without the start pattern
Codes ==
    { << >> }
        \cup { solutionCodeStartPattern \o p \o solutionCodeEndPattern : p \in Payloads }
        \cup { solutionCodeStartPattern \o << "x" >>, << "x" >> \o solutionCodeEndPattern }

\* one test file: name between the name patterns, code between the code patterns
TestFile(name, gap, code) ==
    testFileNameStartPattern \o name \o testFileNameEndPattern \o gap
        \o codeStartPattern \o code \o codeEndPattern

\* test files as the page carries them: two well-formed ones, a second file of
\* the name a, a name without code, a name without end pattern, a code without
\* end pattern
TestFileTexts ==
    { TestFile(<< "a" >>, << >>, << "x" >>),
      TestFile(<< "b" >>, << " " >>, << "y", "&", "a", "m", "p", ";" >>),
      TestFile(<< "a" >>, << " " >>, << "z" >>),
      testFileNameStartPattern \o << "a" >> \o testFileNameEndPattern,
      testFileNameStartPattern \o << "c" >> \o codeStartPattern \o << "x" >> \o codeEndPattern,
      testFileNameStartPattern \o << "a" >> \o testFileNameEndPattern \o codeStartPattern
          \o << "x" >> }

\* the concatenations of at most n test files
RECURSIVE FileLists(_)
FileLists(n) ==
    IF n = 0 THEN { << >> }
    ELSE FileLists(n - 1) \cup { l \o f : l \in FileLists(n - 1), f \in TestFileTexts }

\* the test-suite part of a page: absent, or files behind the start pattern with
\* or without the end pattern
Suites ==
    { << >> }
        \cup { testSuiteStartPattern \o l \o testSuiteEndPattern : l \in FileLists(MaxTestFiles) }
        \cup { testSuiteStartPattern \o l : l \in FileLists(MaxTestFiles) }

\* the text of the page built of the parts p
Page(p) == p.author \o p.code \o p.suite

\* what extracted records of a call of fn that returned r
Ran(fn, r) ==
    [fn |-> fn, code |-> r.code, author |-> r.author, suite |-> r.suite, err |-> r.err]

programVars ==
    << mainpc, cmd, poolVars, tq, closed, wk, wg, mx, total, idx, uuids, dlVars, benchVars,
       err, printed, histVars, failed, exitCode, statVars >>

ExtractInit ==
    /\ PoolInit
    /\ parts \in [author : Authors, code : Codes, suite : Suites]
    /\ extracted = NotExtracted
    /\ NoStats

CallExtractSolutionCode ==
    /\ extracted.fn = "none"
    /\ extracted' = Ran("extractSolutionCode", extractSolutionCode(Page(parts)))
    /\ UNCHANGED << parts, programVars >>

CallExtractTestSuite ==
    /\ extracted.fn = "none"
    /\ extracted' = Ran("extractTestSuite", extractTestSuite(Page(parts)))
    /\ UNCHANGED << parts, programVars >>

CallExtractSolutionCodeByIndex ==
    /\ extracted.fn = "none"
    /\ extracted' = Ran("extractSolutionCodeByIndex", extractSolutionCodeByIndex(Page(parts)))
    /\ UNCHANGED << parts, programVars >>

CallExtractTestSuiteByIndex ==
    /\ extracted.fn = "none"
    /\ extracted' = Ran("extractTestSuiteByIndex", extractTestSuiteByIndex(Page(parts)))
    /\ UNCHANGED << parts, programVars >>

\* the map iteration order of normalizeCode is any of the orders
CallExtractSolutionCodeNormalized ==
    /\ extracted.fn = "none"
    /\ LET c == CodeBetweenPatterns(Page(parts)) IN
       extracted' \in { Ran("extractSolutionCodeNormalized", NormalizedCode(c, o)) :
                          o \in Orders }
    /\ UNCHANGED << parts, programVars >>

ExtractNext ==
    \/ CallExtractSolutionCode \/ CallExtractTestSuite
    \/ CallExtractSolutionCodeByIndex \/ CallExtractTestSuiteByIndex

\* the extraction functions of the two pattern-based variants applied once to
\* each page of the family
ExtractSpec == ExtractInit /\ [][ExtractNext]_vars

\* test-suite parts of one file
SingleFileSuites ==
    { << >> }
        \cup { testSuiteStartPattern \o f \o testSuiteEndPattern : f \in TestFileTexts }
        \cup { testSuiteStartPattern \o f : f \in TestFileTexts }

NormalizeInit ==
    /\ PoolInit
    /\ parts \in [author : Authors, code : Codes, suite : SingleFileSuites]
    /\ extracted = NotExtracted
    /\ NoStats

NormalizeNext == CallExtractSolutionCodeNormalized

\* the extractor of the normalizeCode variant applied once to each page, under
\* every iteration order of its table
NormalizeSpec == NormalizeInit /\ [][NormalizeNext]_vars

\* ------------------------------------------------------------------ properties
Ids == UNION { Range(c) : c \in PageContents }

AllTasks ==
    { PageTask(n) : n \in 0..(MaxPages - 1) } \cup { CodeTask(u) : u \in Ids }
        \cup { BenchTask(i) : i \in 1..MaxFiles }

\* workers that are inside a task body
Running == { w \in Workers : wk[w].t.kind # "none" }

\* workers whose goroutine was started
Started == { w \in Workers : wk[w].pc # "unstarted" }

\* page numbers whose task fetch succeeded, and the identifiers matched on them
FetchedOk == { p \in PageNumbers : got[p].st = "ok" }
MatchedIds == UNION { Range(got[p].ms) : p \in FetchedOk }

\* positions of the main goroutine behind the barrier of the phase of a task kind
PastBarrier(kind) ==
    CASE kind = "page"  -> {"uuids_returned", "test_suite", "submit_codes", "wait_codes",
                            "return", "exit"}
      [] kind = "code"  -> {"return", "exit"}
      [] kind = "bench" -> {"rank", "return", "exit"}

\* positions of a task inside an I/O call: page fetch, file write, temp dir
\* creation, file copies, the benchmark tool run, the code-size read, the removal
\* of the temp dir
IOPcs == {"fetch", "write", "tempdir", "copy", "runbench", "codesize", "cleanup"}

\* C1: when getSolutionUUIDs returns, the identifier set is exactly the union of
\* the identifiers matched on the pages whose task fetch succeeded; when every
\* page of 1..N was fetched, its size is the number of distinct identifiers on
\* all pages, and that is the total the total command reports.
C1_UuidsAreUnionOfFetchedPages ==
    /\ mainpc = "uuids_returned" =>
          /\ uuids = MatchedIds
          /\ (\A p \in 1..total : got[p].st = "ok") =>
                Cardinality(uuids) =
                    Cardinality(UNION { Range(got[p].ms) : p \in 1..total })
    /\ printed.what = "total" => printed.n = Cardinality(MatchedIds)

\* two pages with the identifiers a, b and a: the total reported is 2
C1_Witness ==
    /\ cmd = "total"
    /\ got[1] = Fetched(<<"a", "b">>)
    /\ got[2] = Fetched(<<"a">>)
    /\ printed = Total(2)

\* C2: whenever the main goroutine is behind the barrier of a phase, every
\* task submitted in that phase has finished and none of them is queued or
\* running.
C2_BarrierAfterAllTasks ==
    /\ \A t \in submitted : mainpc \in PastBarrier(t.kind) => t \in finished
    /\ \A w \in Running : mainpc \notin PastBarrier(wk[w].t.kind)
    /\ \A i \in 1..Len(tq) : mainpc \notin PastBarrier(tq[i].kind)

\* the ranking step of bench is reached after two tasks, one of which failed
C2_Witness ==
    /\ mainpc = "rank"
    /\ Cardinality(finished) = 2
    /\ Len(sstats) = 1

\* C3: under fair scheduling every task sent on the queue is eventually run to
\* completion (the sets of submitted and of finished tasks only grow, and again
\* and again every task submitted so far has finished), and when the command
\* returns no submitted task is left.
C3_EveryTaskRuns ==
    /\ [][submitted \subseteq submitted' /\ finished \subseteq finished']_vars
    /\ []<>(submitted \subseteq finished)
    /\ [](mainpc \in {"return", "exit"} => submitted \subseteq finished)

\* the command returned after its only worker ran two tasks, one after the other
C3_Witness ==
    /\ tqSize = 1
    /\ mainpc = "exit"
    /\ Cardinality(submitted) = 2
    /\ submitted = finished

\* C4: when getSolutionUUIDs returns, exactly N page tasks were submitted and
\* each page number of 1..N was asked for by exactly one task fetch, no other
\* page number by any.
C4_PagesOneToN ==
    mainpc = "uuids_returned" =>
        /\ Cardinality({ t \in submitted : t.kind = "page" }) = total
        /\ \A p \in PageNumbers : reqs[p] = IF p \in 1..total THEN 1 ELSE 0

\* discovery over the largest page count returned
C4_Witness ==
    /\ mainpc = "uuids_returned"
    /\ total = MaxPages
    /\ reqs[MaxPages] = 1

\* C5: the queue never holds more than tqSize tasks, tqSize is 1 with
\* concurrency off, and while tqSize tasks are queued no step submits a task.
C5_QueueBounded ==
    /\ [](Len(tq) <= tqSize)
    /\ [](mainpc \notin {"run"} /\ err # "invalid usage" =>
             /\ tqSize >= 1
             /\ ~concurrencyFlag => tqSize = 1)
    /\ [][Len(tq) >= tqSize => submitted' = submitted /\ Len(tq') <= Len(tq)]_vars

\* the submitting main goroutine is blocked on the full queue
C5_Witness ==
    /\ mainpc = "submit_pages"
    /\ idx < total
    /\ Len(tq) = tqSize

\* C6: once the start loop is done exactly tqSize workers exist; at most tqSize
\* tasks are in execution, at most one with concurrency off; no task is run by
\* two workers; a worker leaves a task only when the task has finished.
C6_AtMostKExecuting ==
    /\ [](mainpc \notin {"run", "spawn"} /\ err # "invalid usage" =>
             Cardinality(Started) = tqSize)
    /\ [](Cardinality(Running) <= tqSize)
    /\ [](~concurrencyFlag => Cardinality(Running) <= 1)
    /\ [](\A v, w \in Running : wk[v].t = wk[w].t => v = w)
    /\ [][\A w \in Running : wk'[w].t # wk[w].t =>
             wk[w].t \in finished' /\ wk'[w].t.kind = "none"]_vars

\* two tasks are in execution at once
C6_Witness ==
    /\ concurrencyFlag
    /\ Cardinality(Running) = 2

\* C7: the queue is closed only when the command has returned, with every
\* submitted task finished and nothing queued or running; a worker has exited
\* only if the queue is closed and drained.
C7_CloseAfterCompletion ==
    /\ closed =>
          /\ mainpc = "exit"
          /\ submitted \subseteq finished
          /\ tq = <<>>
          /\ Running = {}
    /\ \A w \in Workers : wk[w].pc = "exited" => closed /\ tq = <<>>

\* a worker exited after the pool ran tasks
C7_Witness ==
    /\ closed
    /\ finished # {}
    /\ \E w \in Workers : wk[w].pc = "exited"

C9_NoLockAcrossIO ==
    \A w \in Workers : wk[w].pc \in IOPcs => mx # w

\* a bench task is inside an I/O call after it appended its record under the mutex
C9_Witness ==
    \E w \in Workers :
        /\ wk[w].pc = "cleanup"
        /\ \E i \in 1..Len(sstats) : sstats[i].name = wk[w].t.f

\* C10: once the first page was read without a page-count marker, or with a
\* number that cannot be parsed, the command has returned an error, no task
\* was submitted and no count was reported.
C10_NoMarkerIsFatal ==
    marker \in {"absent", "overflow"} =>
        /\ err \in {"can't find solution groups number", "value out of range"}
        /\ mainpc \in {"return", "exit"}
        /\ submitted = {}
        /\ tq = <<>>
        /\ printed = Nothing

\* download ended on a first page without marker
C10_Witness ==
    /\ cmd = "download"
    /\ marker = "absent"
    /\ mainpc = "exit"

\* identifiers matched on the pages of the page tasks that did not fail
IdsOfGoodPages ==
    UNION { Range(got[PageParam(t.n)].ms) : t \in { u \in finished \ failed : u.kind = "page" } }

\* C11: a page task whose fetch fails or whose page matches nothing adds no
\* identifier and leaves the error of getSolutionUUIDs alone: the error stays
\* nil while the page tasks run, and when getSolutionUUIDs returns every page
\* task of 0..total-1 has run, the identifiers of every page that was fetched
\* are in the result and none comes from a failed task.
C11_FailedPageIsSkipped ==
    /\ mainpc \in {"submit_pages", "wait_pages", "uuids_returned"} => err = "nil"
    /\ mainpc = "uuids_returned" =>
          /\ \A n \in 0..(total - 1) : PageTask(n) \in finished
          /\ \A p \in 1..total : got[p].st = "ok" => Range(got[p].ms) \subseteq uuids
          /\ uuids \subseteq IdsOfGoodPages

\* page 1 could not be fetched, page 2 held a and b: the result is {a, b}
C11_Witness ==
    /\ mainpc = "uuids_returned"
    /\ got[1] = FetchFailed
    /\ got[2] = Fetched(<<"a", "b">>)
    /\ PageTask(0) \in failed
    /\ uuids = {"a", "b"}
    /\ err = "nil"

\* solutions named by the records of sstats
RankedNames == { sstats[i].name : i \in 1..Len(sstats) }

C13_NoBenchmarkIsFatal ==
    (cmd = "bench" /\ mainpc \notin {"run", "spawn", "bench_names"} /\ bnames = <<>>) =>
        /\ mainpc \in {"return", "exit"}
        /\ err \in {"found 0 benchmarks", "read test suite failed", "invalid usage"}
        /\ submitted = {}
        /\ printed = Nothing

\* bench ended on a test suite without benchmarks
C13_Witness ==
    /\ cmd = "bench"
    /\ mainpc = "exit"
    /\ err = "found 0 benchmarks"
    /\ exitCode = 1

\* C14: once bench has read a solutions directory that holds no regular file,
\* the command has the error "found 0 solutions" and no task was submitted.
C14_NoRegularFileIsAnError ==
    ( /\ cmd = "bench"
      /\ mainpc \in {"submit_bench", "wait_bench", "rank", "return", "exit"}
      /\ bnames # <<>>
      /\ err # "read dir failed"
      /\ \A i \in 1..Len(fis) : ~Regular(fis[i]) ) =>
        /\ err = "found 0 solutions"
        /\ submitted = {}

\* errors a command returns that are not errInvalidUsage
FatalErrors ==
    {"download failed", "can't find solution groups number", "value out of range",
     "mkdir failed", "no test suite", "read test suite failed", "found 0 benchmarks",
     "read dir failed", "found 0 solutions"}

ExtractionErrors == {errNoSolutionCode, errNoAuthorName, errNoTestSuite}

\* C16: whatever the page, no extraction function of the two pattern-based
\* variants computes a slice bound outside its text: each returns a result or
\* one of the three errors.
C16_ExtractionNeverPanics ==
    extracted.fn # "none" =>
        /\ extracted.err # "panic"
        /\ extracted.err \in ExtractionErrors \cup {"nil"}

\* C17: on the page made of the author line, the solution-code start pattern,
\* a payload without the end pattern (the empty one included) and the end
\* pattern, extractSolutionCode returns the decoded payload and no error.
C17_RoundTrip ==
    \A payload \in Payloads :
        ( /\ extracted.fn = "extractSolutionCode"
          /\ parts.author # << >>
          /\ parts.code = solutionCodeStartPattern \o payload \o solutionCodeEndPattern
          /\ parts.suite = << >>
          /\ Index(payload, solutionCodeEndPattern) = -1 ) =>
            /\ extracted.err = "nil"
            /\ extracted.code = UnescapeString(payload)

\* the page lacks the solution-code start pattern, or the end pattern behind it
NoSolutionCodeMarker(page) ==
    \/ Index(page, solutionCodeStartPattern) = -1
    \/ Index(Slice(page, Index(page, solutionCodeStartPattern), Len(page)),
             solutionCodeEndPattern) = -1

\* the page lacks the test-suite start pattern, or the end pattern behind it
NoTestSuiteMarker(page) ==
    \/ Index(page, testSuiteStartPattern) = -1
    \/ Index(Slice(page, Index(page, testSuiteStartPattern), Len(page)),
             testSuiteEndPattern) = -1

\* C18: extractSolutionCode returns errNoAuthorName on a page without author
\* line and errNoSolutionCode on a page with author line that lacks a
\* solution-code pattern; extractTestSuite returns errNoTestSuite on a page that
\* lacks a test-suite pattern or has no file between the two.
C18_ErrorOfTheMissingKind ==
    /\ extracted.fn = "extractSolutionCode" =>
          /\ parts.author = << >> => extracted.err = errNoAuthorName
          /\ (parts.author # << >> /\ NoSolutionCodeMarker(Page(parts))) =>
                extracted.err = errNoSolutionCode
    /\ extracted.fn = "extractTestSuite" =>
          /\ NoTestSuiteMarker(Page(parts)) => extracted.err = errNoTestSuite
          /\ parts.suite = testSuiteStartPattern \o testSuiteEndPattern =>
                extracted.err = errNoTestSuite

\* a page with solution code and test suite but no author line was answered
\* with errNoAuthorName
C18_Witness ==
    /\ extracted.fn = "extractSolutionCode"
    /\ parts.author = << >>
    /\ ~NoSolutionCodeMarker(Page(parts))
    /\ ~NoTestSuiteMarker(Page(parts))
    /\ extracted.err = errNoAuthorName

\* the text between the test-suite patterns of the page
SuiteRegion(page) == getFirstMatch(page, testSuiteStartPattern, testSuiteEndPattern).match

\* the file names the region announces by a file-name start pattern (the names
\* of the page family are one character long)
NamesAnnounced(region) ==
    { << region[i + Len(testFileNameStartPattern)] >> :
        i \in { j \in 1..(Len(region) - Len(testFileNameStartPattern)) :
                  SubSeq(region, j, j + Len(testFileNameStartPattern) - 1)
                      = testFileNameStartPattern } }

\* C19: extractSolutionCode returns author and code together or an error with
\* both empty; extractTestSuite returns a mapping with every file the region
\* announces or an error with no mapping; and what is returned for the code,
\* the author and the test suite does not change when the part of the page that
\* carries another kind is taken away.
C19_NeverPartial ==
    /\ extracted.fn = "extractSolutionCode" =>
          /\ \/ extracted.err = "nil" /\ extracted.code # << >> /\ extracted.author # << >>
             \/ extracted.err # "nil" /\ extracted.code = << >> /\ extracted.author = << >>
          /\ extracted.code = extractSolutionCode(Page([parts EXCEPT !.author = << >>])).code
          /\ extracted.code =
                extractSolutionCode(Page([parts EXCEPT !.author = authorPrefix \o << "b" >>])).code
          /\ extracted.code = extractSolutionCode(Page([parts EXCEPT !.suite = << >>])).code
          /\ extracted.author = extractSolutionCode(Page([parts EXCEPT !.code = << >>])).author
    /\ extracted.fn = "extractTestSuite" =>
          /\ \/ /\ extracted.err = "nil"
                /\ NamesAnnounced(SuiteRegion(Page(parts))) # {}
                /\ \A n \in NamesAnnounced(SuiteRegion(Page(parts))) :
                      \E e \in extracted.suite : e[1] = n
             \/ extracted.err # "nil" /\ extracted.suite = {}
          /\ extracted.suite =
                extractTestSuite(Page([parts EXCEPT !.author = << >>, !.code = << >>])).suite

\* C20: the extractor of the normalizeCode variant returns the same code for a
\* page under every order in which normalizeCode can visit its five
\* replacements.
C20_ExtractionDeterministic ==
    extracted.fn = "extractSolutionCodeNormalized" =>
        \A o \in Orders :
            extracted.code = extractSolutionCodeNormalized(Page(parts), o).code

\* the code of the first entry of the region that carries the file name
FirstCodeOf(region, name) ==
    UnescapeString(
        getFirstMatch(
            Slice(region,
                  Index(region, testFileNameStartPattern \o name \o testFileNameEndPattern),
                  Len(region)),
            codeStartPattern, codeEndPattern).match)

\* C21: in the mapping extractTestSuite returns, every file name is mapped to
\* the code of the first entry of the region with that name; a later entry of
\* the same name is skipped.
C21_FirstWriterWins ==
    (extracted.fn = "extractTestSuite" /\ extracted.err = "nil") =>
        \A e \in extracted.suite :
            e[1] \in NamesAnnounced(SuiteRegion(Page(parts))) =>
                e[2] = FirstCodeOf(SuiteRegion(Page(parts)), e[1])

\* positions of a bench task between the creation of its workspace and the
\* deferred calls
WorkspacePcs == {"copy", "runbench", "codesize", "lock", "cs", "cleanup"}

\* C22: the workspaces that exist are exactly those of the bench tasks still
\* running behind their ioutil.TempDir, so a task that finished on any path
\* (failed copy, failed benchmark, failed code size, success) left none; behind
\* the barrier of the bench phase no workspace exists.
C22_WorkspaceRemoved ==
    /\ tmpdirs = { wk[w].t : w \in { v \in Workers : wk[v].pc \in WorkspacePcs
                                                     /\ wk[v].t.kind = "bench" } }
    /\ tmpdirs \cap finished = {}
    /\ (cmd = "bench" /\ mainpc \in PastBarrier("bench")) => tmpdirs = {}

\* behind the barrier, with a task that failed and a task that was ranked
C22_Witness ==
    /\ cmd = "bench"
    /\ mainpc \in PastBarrier("bench")
    /\ \E t \in failed \cap finished : t.kind = "bench"
    /\ Len(sstats) > 0
    /\ tmpdirs = {}

\* ------------------------------------------------------------------ benchCmd, walking the directory
\* info.IsDir()
IsDir(kind) == kind = "dir"

\* run of the walking program: the command is bench
WalkRunSetup == RunSetup /\ cmd' = "bench"

\* benchCmd: the fresh wg, sstats and mx; filepath.Walk visits the root, which
\* is a directory (return nil), and reads its entries, or is handed the error of
\* the root and returns it
WalkStart ==
    /\ mainpc = "read_dir"
    /\ \E ok \in BOOLEAN, l \in Listings(MaxFiles) :
          IF ~ok THEN
              /\ err' = "walk failed"
              /\ mainpc' = "return"
              /\ UNCHANGED << fis, wg, mx, sstats, idx >>
          ELSE
              /\ fis' = l
              /\ wg' = 0
              /\ mx' = 0
              /\ sstats' = <<>>
              /\ idx' = 0
              /\ mainpc' = "submit_bench"
              /\ UNCHANGED err
    /\ UNCHANGED << cmd, poolVars, tq, closed, wk, total, uuids, dlVars, bnames, tmpdirs,
                    printed, histVars,
                    failed, exitCode, extractVars >>

\* the walk function on a directory below the root: filepath.SkipDir
WalkSkipDir ==
    /\ mainpc = "submit_bench"
    /\ idx < Len(fis)
    /\ IsDir(fis[idx + 1])
    /\ idx' = idx + 1
    /\ UNCHANGED << mainpc, cmd, poolVars, tq, closed, wk, wg, mx, total, uuids, dlVars,
                    benchVars, err, printed, histVars,
                    failed, exitCode, extractVars >>

\* the walk function on any other entry: wg.Add(1); tq <- func() {...}; return nil
WalkSubmit ==
    /\ mainpc = "submit_bench"
    /\ idx < Len(fis)
    /\ ~IsDir(fis[idx + 1])
    /\ CanSend
    /\ wg' = wg + 1
    /\ tq' = Append(tq, BenchTask(idx + 1))
    /\ submitted' = submitted \cup {BenchTask(idx + 1)}
    /\ idx' = idx + 1
    /\ UNCHANGED << mainpc, cmd, poolVars, closed, wk, mx, total, uuids, dlVars,
                    benchVars, err, printed, finished, got, reqs, marker, progress,
                    failed, exitCode, extractVars >>

\* the walk function is handed the error of an entry and returns it; Walk
\* returns it and benchCmd returns it at once
WalkFails ==
    /\ mainpc = "submit_bench"
    /\ idx < Len(fis)
    /\ err' = "walk failed"
    /\ mainpc' = "return"
    /\ UNCHANGED << cmd, poolVars, tq, closed, wk, wg, mx, total, idx, uuids, dlVars,
                    benchVars, printed, histVars,
                    failed, exitCode, extractVars >>

WalkMainStep ==
    \/ RunInvalidUsage \/ WalkRunSetup \/ SpawnWorker \/ CallCmd \/ CloseQueue
    \/ GetBenchNames \/ WalkStart \/ WalkSkipDir \/ WalkSubmit \/ WalkFails
    \/ SubmitBenchDone \/ WaitBench \/ PrintRanking

WalkWorkerStep(w) ==
    \/ Take(w) \/ WorkerExit(w) \/ Lock(w)
    \/ BenchTempDir(w) \/ BenchCopy(w) \/ BenchRun(w) \/ BenchCodeSize(w)
    \/ BenchAppend(w) \/ BenchCleanup(w)

WalkNext == WalkMainStep \/ \E w \in Workers : WalkWorkerStep(w)

WalkSpec == Init /\ [][WalkNext]_vars

\* C30: when the walk of the solutions directory has failed, benchCmd has
\* returned, or the queue was closed, only with every enqueued task finished.
C30_WalkFailureStillWaits ==
    (err = "walk failed" /\ mainpc \in {"return", "exit"}) => submitted \subseteq finished

\* ------------------------------------------------------------------ regular expressions
\* A regular expression is the tree of its syntax; Ends lists the offsets at
\* which a match starting at offset i can end, in the order in which a
\* backtracking matcher tries them (Go's leftmost-first semantics: the match
\* reported for a start offset is the first of the list).
Lit(s) == [t |-> "lit", s |-> s]
Class(c) == [t |-> "class", c |-> c]
AnyChar == [t |-> "any"]
Cat(rs) == [t |-> "cat", rs |-> rs]
Alt(rs) == [t |-> "alt", rs |-> rs]
Plus(r) == [t |-> "plus", r |-> r]
Opt(r) == [t |-> "opt", r |-> r]

\* [[:digit:]]
Digit == { "0", "1", "2", "3", "4", "5", "6", "7", "8", "9" }

\* [[:alnum:]]
Alnum ==
    Digit \cup { "a", "b", "c", "d", "e", "f", "g", "h", "i", "j", "k", "l", "m", "n", "o", "p", "q", "r", "s", "t", "u", "v", "w", "x", "y", "z" }
          \cup { "A", "B", "C", "D", "E", "F", "G", "H", "I", "J", "K", "L", "M", "N", "O", "P", "Q", "R", "S", "T", "U", "V", "W", "X", "Y", "Z" }

\* \s
Space == { " ", "\t", "\n", "\f", "\r" }

RECURSIVE Ends(_, _, _), EndsEach(_, _, _), EndsCat(_, _, _), EndsAlt(_, _, _), EndsPlus(_, _, _)
Ends(re, in, i) ==
    CASE re.t = "lit"   -> IF i + Len(re.s) <= Len(in) /\ SubSeq(in, i + 1, i + Len(re.s)) = re.s
                           THEN << i + Len(re.s) >> ELSE << >>
      [] re.t = "class" -> IF i < Len(in) /\ in[i + 1] \in re.c THEN << i + 1 >> ELSE << >>
      [] re.t = "any"   -> IF i < Len(in) /\ in[i + 1] # "\n" THEN << i + 1 >> ELSE << >>
      [] re.t = "cat"   -> EndsCat(re.rs, in, << i >>)
      [] re.t = "alt"   -> EndsAlt(re.rs, in, i)
      [] re.t = "opt"   -> Ends(re.r, in, i) \o << i >>
      [] re.t = "plus"  -> EndsPlus(re.r, in, Ends(re.r, in, i))

\* r tried at each of the offsets, in their order
EndsEach(r, in, starts) ==
    IF starts = << >> THEN << >>
    ELSE Ends(r, in, Head(starts)) \o EndsEach(r, in, Tail(starts))

\* a concatenation: each part goes on where the part before it ended
EndsCat(rs, in, starts) ==
    IF rs = << >> THEN starts
    ELSE EndsCat(Tail(rs), in, EndsEach(Head(rs), in, starts))

\* an alternation: the alternatives in the order they are written
EndsAlt(rs, in, i) ==
    IF rs = << >> THEN << >>
    ELSE Ends(Head(rs), in, i) \o EndsAlt(Tail(rs), in, i)

\* a greedy repetition: one more round is tried before the match stops
EndsPlus(r, in, firsts) ==
    IF firsts = << >> THEN << >>
    ELSE EndsPlus(r, in, Ends(r, in, Head(firsts))) \o << Head(firsts) >>
             \o EndsPlus(r, in, Tail(firsts))

NoMatch == [lo |-> -1, hi |-> -1]

\* the leftmost match of re in in at or behind offset from: the first offset
\* at which re matches, with the end the engine prefers there
Find(re, in, from) ==
    LET starts == { i \in from..Len(in) : Ends(re, in, i) # << >> }
    IN  IF starts = {} THEN NoMatch
        ELSE LET lo == CHOOSE i \in starts : \A j \in starts : i <= j
             IN  [lo |-> lo, hi |-> Head(Ends(re, in, lo))]

\* re.FindString(in)
FindString(re, in) ==
    LET m == Find(re, in, 0) IN IF m = NoMatch THEN << >> ELSE Slice(in, m.lo, m.hi)

\* re.FindAllString(in, -1): the successive non-overlapping matches
RECURSIVE FindAllFrom(_, _, _)
FindAllFrom(re, in, from) ==
    LET m == Find(re, in, from)
    IN  IF m = NoMatch THEN << >>
        ELSE << Slice(in, m.lo, m.hi) >> \o FindAllFrom(re, in, m.hi)

FindAllString(re, in) == FindAllFrom(re, in, 0)

\* "Benchmark([[:alnum:]]|_)+"
benchNameRE ==
    Cat(<< Lit(<< "B", "e", "n", "c", "h", "m", "a", "r", "k" >>),
           Plus(Alt(<< Class(Alnum), Lit(<< "_" >>) >>)) >>)

\* [[:digit:]]+(.[[:digit:]]+)?
Number == Cat(<< Plus(Class(Digit)), Opt(Cat(<< AnyChar, Plus(Class(Digit)) >>)) >>)

nsPerOp == << " ", "n", "s", "/", "o", "p" >>
mbPerS == << " ", "M", "B", "/", "s" >>
bPerOp == << " ", "B", "/", "o", "p" >>
allocsPerOp == << " ", "a", "l", "l", "o", "c", "s", "/", "o", "p" >>

\* "([[:digit:]]+(.[[:digit:]]+)?) ns/op"
benchTimeRE == Cat(<< Number, Lit(nsPerOp) >>)

\* "([[:digit:]]+(.[[:digit:]]+)?) MB/s"
benchThroughputRE == Cat(<< Number, Lit(mbPerS) >>)

\* `([[:digit:]]+) B/op\s+([[:digit:]]+) allocs/op`
benchMemRE ==
    Cat(<< Plus(Class(Digit)), Lit(bPerOp), Plus(Class(Space)),
           Plus(Class(Digit)), Lit(allocsPerOp) >>)

\* "%s(-[[:digit:]]+)?\\s+[[:digit:]]+\\s+%s\\s+(%s\\s+)?(%s)?" of benchNameRE,
\* benchTimeRE, benchThroughputRE and benchMemRE
benchStatsRE ==
    Cat(<< benchNameRE,
           Opt(Cat(<< Lit(<< "-" >>), Plus(Class(Digit)) >>)),
           Plus(Class(Space)), Plus(Class(Digit)), Plus(Class(Space)),
           benchTimeRE, Plus(Class(Space)),
           Opt(Cat(<< benchThroughputRE, Plus(Class(Space)) >>)),
           Opt(benchMemRE) >>)

\* ------------------------------------------------------------------ numbers
Digits == << "0", "1", "2", "3", "4", "5", "6", "7", "8", "9" >>

AllDigits(s) == \A k \in 1..Len(s) : s[k] \in Digit

\* the number a digit string spells; 0 for the empty string
RECURSIVE Value(_)
Value(s) ==
    IF s = << >> THEN 0
    ELSE 10 * Value(SubSeq(s, 1, Len(s) - 1))
             + ((CHOOSE d \in 1..10 : Digits[d] = s[Len(s)]) - 1)

RECURSIVE Pow10(_)
Pow10(n) == IF n = 0 THEN 1 ELSE 10 * Pow10(n - 1)

NotANumber == [ok |-> FALSE, num |-> 0, den |-> 1]

\* strconv.ParseFloat(s, 64) on an unsigned decimal text: digits, digits with a
\* decimal point, or digits with an exponent; the value is num / den. Any other
\* text is a syntax error.
ParseFloat(s) ==
    LET p == Index(s, << "." >>)
        e == IF Index(s, << "e" >>) # -1 THEN Index(s, << "e" >>) ELSE Index(s, << "E" >>)
        int == Slice(s, 0, p)
        frac == Slice(s, p + 1, Len(s))
        mant == Slice(s, 0, e)
        exp == Slice(s, e + 1, Len(s))
    IN  IF s # << >> /\ AllDigits(s) THEN [ok |-> TRUE, num |-> Value(s), den |-> 1]
        ELSE IF p # -1 /\ AllDigits(int) /\ AllDigits(frac) /\ int \o frac # << >>
            THEN [ok |-> TRUE, num |-> Value(int \o frac), den |-> Pow10(Len(frac))]
        ELSE IF e # -1 /\ AllDigits(mant) /\ AllDigits(exp) /\ mant # << >> /\ exp # << >>
            THEN [ok |-> TRUE, num |-> Value(mant) * Pow10(Value(exp)), den |-> 1]
        ELSE NotANumber

\* strconv.ParseInt(s, 10, 64) on an unsigned text; the numbers of the reports
\* stay far below 2^63
ParseInt(s) ==
    IF s # << >> /\ AllDigits(s) THEN [ok |-> TRUE, num |-> Value(s), den |-> 1]
    ELSE NotANumber

\* ------------------------------------------------------------------ runBench
\* the sentinel -1 of the optional fields
Absent == [num |-> -1, den |-> 1]

\* a metric map that keeps the entry a name already has
StoreFirst(m, name, st) ==
    IF \E e \in m : e[1] = name THEN m ELSE m \cup { << name, st >> }

\* bstats[name] = st; a map is the set of its (name, entry) pairs
Store(m, name, st) == { e \in m : e[1] # name } \cup { << name, st >> }

\* a check of the line count that never fires
NoLinesIgnored(lines) == FALSE

\* len(lines) == 0
NoLines(lines) == Len(lines) = 0

\* ms[1] of a match of benchTimeRE or benchThroughputRE: the match without
\* the unit behind the group
Group1(l, m, unit) == Slice(l, m.lo, m.hi - Len(unit))

\* ms[1] of a match of benchMemRE: the digits in front of " B/op"
MemGroup1(l, m) ==
    LET s == Slice(l, m.lo, m.hi) IN Slice(s, 0, Index(s, bPerOp))

\* ms[2] of a match of benchMemRE: the digits in front of " allocs/op", the
\* first digits behind " B/op"
MemGroup2(l, m) ==
    LET s == Slice(l, m.lo, m.hi)
    IN  FindString(Plus(Class(Digit)), Slice(s, Index(s, bPerOp) + Len(bPerOp), Len(s)))

Returned(made, m, e) == [fn |-> "runBench", made |-> made, bstats |-> m, err |-> e]

\* the loop over the matched lines; a parse error returns the map filled so far
RECURSIVE StatsOfLines(_, _)
StatsOfLines(lines, m) ==
    IF lines = << >> THEN Returned(TRUE, m, "nil")
    ELSE
        LET l == Head(lines)
            name == FindString(benchNameRE, l)
            tm == Find(benchTimeRE, l, 0)
            th == Find(benchThroughputRE, l, 0)
            mm == Find(benchMemRE, l, 0)
            time == ParseFloat(Group1(l, tm, nsPerOp))
            throughput == IF th = NoMatch THEN Absent ELSE ParseFloat(Group1(l, th, mbPerS))
            mem == IF mm = NoMatch THEN Absent ELSE ParseInt(MemGroup1(l, mm))
            allocs == IF mm = NoMatch THEN Absent ELSE ParseInt(MemGroup2(l, mm))
            st == [time |-> [num |-> time.num, den |-> time.den],
                   throughput |-> [num |-> throughput.num, den |-> throughput.den],
                   mem |-> mem.num, allocs |-> allocs.num]
        IN  IF tm = NoMatch THEN Returned(TRUE, m, "panic")
            ELSE IF ~time.ok THEN Returned(TRUE, m, "parse error")
            ELSE IF th # NoMatch /\ ~throughput.ok THEN Returned(TRUE, m, "parse error")
            ELSE IF mm # NoMatch /\ ~mem.ok THEN Returned(TRUE, m, "parse error")
            ELSE IF mm # NoMatch /\ ~allocs.ok THEN Returned(TRUE, m, "parse error")
            ELSE StatsOfLines(Tail(lines), Store(m, name, st))

\* runBench on the output of the go tool, given that the tool ran
runBench(text) ==
    LET lines == FindAllString(benchStatsRE, text)
    IN  IF NoLines(lines) THEN Returned(FALSE, {}, "no benchmarks")
        ELSE StatsOfLines(lines, {})

\* ------------------------------------------------------------------ runBench: reports
\* lines a report is made of, each with the values it reports
MaxLines == 2

StatsLine1 ==
    [kind |-> "stats",
     text |->
        << "B", "e", "n", "c", "h", "m", "a", "r", "k", "A", "-", "4", " ", "\t", "1", "0",
           "0", "0", "\t", " ", " ", " ", "5", "2", "3", ".", "4", " ", "n", "s", "/", "o",
           "p", "\t", " ", "1", "2", "8", " ", "B", "/", "o", "p", "\t", " ", "3", " ", "a",
           "l", "l", "o", "c", "s", "/", "o", "p", "\n" >>,
     name |-> << "B", "e", "n", "c", "h", "m", "a", "r", "k", "A" >>,
     time |-> [num |-> 5234, den |-> 10], throughput |-> Absent, mem |-> 128, allocs |-> 3]

StatsLine2 ==
    [kind |-> "stats",
     text |->
        << "B", "e", "n", "c", "h", "m", "a", "r", "k", "A", "-", "4", " ", "\t", "2", "0",
           "0", "0", "\t", " ", " ", " ", "5", "2", "3", " ", "n", "s", "/", "o", "p", "\n" >>,
     name |-> << "B", "e", "n", "c", "h", "m", "a", "r", "k", "A" >>,
     time |-> [num |-> 523, den |-> 1], throughput |-> Absent, mem |-> -1, allocs |-> -1]

StatsLine3 ==
    [kind |-> "stats",
     text |->
        << "B", "e", "n", "c", "h", "m", "a", "r", "k", "B", " ", "\t", "2", "0", "0", "0",
           "\t", " ", "4", "0", ".", "5", " ", "n", "s", "/", "o", "p", "\t", " ", "1", "0",
           "0", ".", "2", "5", " ", "M", "B", "/", "s", "\t", " ", "1", "6", " ", "B", "/",
           "o", "p", "\t", " ", "1", " ", "a", "l", "l", "o", "c", "s", "/", "o", "p", "\n" >>,
     name |-> << "B", "e", "n", "c", "h", "m", "a", "r", "k", "B" >>,
     time |-> [num |-> 405, den |-> 10], throughput |-> [num |-> 10025, den |-> 100], mem |-> 16, allocs |-> 1]

StatsLine4 ==
    [kind |-> "stats",
     text |->
        << "B", "e", "n", "c", "h", "m", "a", "r", "k", "B", "-", "8", " ", "\t", " ", " ",
           " ", "1", "\t", " ", "7", " ", "n", "s", "/", "o", "p", "\t", " ", "9", ".", "5",
           " ", "M", "B", "/", "s", "\n" >>,
     name |-> << "B", "e", "n", "c", "h", "m", "a", "r", "k", "B" >>,
     time |-> [num |-> 7, den |-> 1], throughput |-> [num |-> 95, den |-> 10], mem |-> -1, allocs |-> -1]

StatsLine5 ==
    [kind |-> "stats",
     text |->
        << "B", "e", "n", "c", "h", "m", "a", "r", "k", "A", "_", "b", "2", "-", "4", " ",
           "\t", " ", "3", "0", " ", "\t", " ", "6", " ", "n", "s", "/", "o", "p", "\n" >>,
     name |-> << "B", "e", "n", "c", "h", "m", "a", "r", "k", "A", "_", "b", "2" >>,
     time |-> [num |-> 6, den |-> 1], throughput |-> Absent, mem |-> -1, allocs |-> -1]

StatsLine6 ==
    [kind |-> "stats",
     text |->
        << "B", "e", "n", "c", "h", "m", "a", "r", "k", "A", "-", "4", " ", "\t", "1", "0",
           "0", "0", "\t", "5", "2", "3", " ", "n", "s", "/", "o", "p", "\n" >>,
     name |-> << "B", "e", "n", "c", "h", "m", "a", "r", "k", "A" >>,
     time |-> [num |-> 523, den |-> 1], throughput |-> Absent, mem |-> -1, allocs |-> -1]

OtherLine1 ==
    [kind |-> "other",
     text |-> << "P", "A", "S", "S", "\n" >>,
     name |-> << >>,
     time |-> Absent, throughput |-> Absent, mem |-> -1, allocs |-> -1]

OtherLine2 ==
    [kind |-> "other",
     text |-> << "o", "k", " ", " ", "\t", "p", "k", "g", "\t", "1", ".", "5", "s", "\n" >>,
     name |-> << >>,
     time |-> Absent, throughput |-> Absent, mem |-> -1, allocs |-> -1]

ReportLines ==
    { StatsLine1, StatsLine2, StatsLine3, StatsLine4,
      StatsLine5, StatsLine6, OtherLine1, OtherLine2 }

RECURSIVE Reports(_)
Reports(n) ==
    IF n = 0 THEN { << >> }
    ELSE Reports(n - 1) \cup
         { Append(r, l) : r \in { x \in Reports(n - 1) : Len(x) = n - 1 }, l \in ReportLines }

\* the text of a report
RECURSIVE Text(_)
Text(r) == IF r = << >> THEN << >> ELSE Head(r).text \o Text(Tail(r))

NotRun == [fn |-> "none", made |-> FALSE, bstats |-> {}, err |-> "nil"]

ParseInit ==
    /\ PoolInit
    /\ parts = NoParts
    /\ extracted = NotExtracted
    /\ out \in Reports(MaxLines)
    /\ bstats = NotRun
    /\ unranked = << >>
    /\ ranked = NotRanked

\* bench task: runBench on the report, and on its success the record of the
\* solution appended to sstats
CallRunBench ==
    /\ bstats.fn = "none"
    /\ bstats' = runBench(Text(out))
    /\ unranked' = IF AfterStep(bstats'.err = "nil", "codesize") = "cleanup" THEN unranked
                   ELSE Append(unranked, [name |-> Len(unranked) + 1, benchs |-> bstats'.bstats,
                                             size |-> 5])
    /\ UNCHANGED << out, ranked, parts, extracted, mainpc, cmd, poolVars, tq, closed, wk, wg,
                    mx, total, idx, uuids, dlVars, benchVars, err, printed, histVars, failed,
                    exitCode >>

ParseNext == CallRunBench

\* runBench applied once to each report of the family
ParseSpec == ParseInit /\ [][ParseNext]_vars

\* ------------------------------------------------------------------ properties of runBench
\* positions of the report's lines that hold benchmark stats
StatsPositions == { k \in 1..Len(out) : out[k].kind = "stats" }

\* the last position at which each benchmark name is reported
LastPositions ==
    { k \in StatsPositions : \A j \in StatsPositions : out[j].name = out[k].name => j <= k }

SameValue(a, b) == a.num * b.den = b.num * a.den

\* the entry holds what the line reports
HoldsValuesOf(st, line) ==
    /\ SameValue(st.time, line.time)
    /\ SameValue(st.throughput, line.throughput)
    /\ st.mem = line.mem
    /\ st.allocs = line.allocs

\* C23: on a report none of whose lines holds benchmark stats runBench returns
\* the error "no benchmarks" and no map, and no record is appended for the
\* solution.
C23_NoBenchmarks ==
    (bstats.fn = "runBench" /\ StatsPositions = {}) =>
        /\ bstats.err = "no benchmarks"
        /\ ~bstats.made
        /\ bstats.bstats = {}
        /\ unranked = << >>

\* runBench has returned on a report of lines without stats
C23_Witness ==
    /\ bstats.fn = "runBench"
    /\ Len(out) > 0
    /\ StatsPositions = {}
    /\ bstats.err = "no benchmarks"

\* C24: for every line of the report that holds stats (the last one of its
\* benchmark name), the map runBench returns has under that name an entry with
\* the time the line reports and with every optional field as the line reports
\* it, -1 when the line has none.
C24_EntryHoldsReportedValues ==
    bstats.fn = "runBench" =>
        \A k \in LastPositions :
            \E e \in bstats.bstats : e[1] = out[k].name /\ HoldsValuesOf(e[2], out[k])

\* C25: the map of a report runBench has parsed holds exactly one entry for
\* each benchmark name reported on a stats line, and that is the entry of the
\* last line reporting the name.
C25_OneEntryPerName ==
    (bstats.fn = "runBench" /\ bstats.err = "nil") =>
        /\ { e[1] : e \in bstats.bstats } = { out[k].name : k \in StatsPositions }
        /\ \A e, f \in bstats.bstats : e[1] = f[1] => e = f
        /\ \A k \in LastPositions :
              \A e \in bstats.bstats : e[1] = out[k].name => HoldsValuesOf(e[2], out[k])

\* a report with two lines of one benchmark name and different times was parsed
C25_Witness ==
    /\ bstats.fn = "runBench"
    /\ bstats.err = "nil"
    /\ Len(out) = 2
    /\ StatsPositions = {1, 2}
    /\ out[1].name = out[2].name
    /\ ~SameValue(out[1].time, out[2].time)
    /\ Cardinality(bstats.bstats) = 1

\* ------------------------------------------------------------------ sortStatsByBench
\* float64 values as runBench parsed them: num / den with den > 0
FloatLess(a, b) == a.num * b.den < b.num * a.den
FloatEq(a, b) == a.num * b.den = b.num * a.den

\* sstats[i].benchs[benchName]
Get(m, benchName) == (CHOOSE e \in m : e[1] = benchName)[2]

\* a comparison that leaves the code size out
LessWithoutSize(a, b, benchName) ==
    LET lh == Get(a.benchs, benchName)
        rh == Get(b.benchs, benchName)
    IN  \/ FloatLess(lh.time, rh.time)
        \/ (FloatEq(lh.time, rh.time) /\ FloatLess(lh.throughput, rh.throughput))
        \/ (FloatEq(lh.time, rh.time) /\ FloatEq(lh.throughput, rh.throughput)
              /\ lh.mem < rh.mem)
        \/ (FloatEq(lh.time, rh.time) /\ FloatEq(lh.throughput, rh.throughput)
              /\ lh.mem = rh.mem /\ lh.allocs < rh.allocs)

\* the less function handed to sort.SliceStable, on the records a = sstats[i]
\* and b = sstats[j]
Less(a, b, benchName) ==
    LET lh == Get(a.benchs, benchName)
        rh == Get(b.benchs, benchName)
    IN  \/ FloatLess(lh.time, rh.time)
        \/ (FloatEq(lh.time, rh.time) /\ FloatLess(lh.throughput, rh.throughput))
        \/ (FloatEq(lh.time, rh.time) /\ FloatEq(lh.throughput, rh.throughput)
              /\ lh.mem < rh.mem)
        \/ (FloatEq(lh.time, rh.time) /\ FloatEq(lh.throughput, rh.throughput)
              /\ lh.mem = rh.mem /\ lh.allocs < rh.allocs)
        \/ (FloatEq(lh.time, rh.time) /\ FloatEq(lh.throughput, rh.throughput)
              /\ lh.mem = rh.mem /\ lh.allocs = rh.allocs /\ a.size < b.size)

\* r put into the sorted sequence s in front of the first record it is less than
RECURSIVE Insert(_, _, _)
Insert(s, r, benchName) ==
    IF s = << >> THEN << r >>
    ELSE IF Less(r, Head(s), benchName) THEN << r >> \o s
    ELSE << Head(s) >> \o Insert(Tail(s), r, benchName)

\* r put in front of the first record that is not less than it
RECURSIVE InsertEarly(_, _, _)
InsertEarly(s, r, benchName) ==
    IF s = << >> THEN << r >>
    ELSE IF ~Less(Head(s), r, benchName) THEN << r >> \o s
    ELSE << Head(s) >> \o InsertEarly(Tail(s), r, benchName)

\* a sort that is not stable: records that compare equal end up in reverse order
RECURSIVE sortUnstable(_, _)
sortUnstable(stats, benchName) ==
    IF stats = << >> THEN << >>
    ELSE InsertEarly(sortUnstable(SubSeq(stats, 1, Len(stats) - 1), benchName),
                     stats[Len(stats)], benchName)

\* sort.SliceStable(sstats, less): the one ordering of the records in which no
\* record is less than one in front of it and records that compare equal keep
\* their order
RECURSIVE sortStatsByBench(_, _)
sortStatsByBench(stats, benchName) ==
    IF stats = << >> THEN << >>
    ELSE Insert(sortStatsByBench(SubSeq(stats, 1, Len(stats) - 1), benchName),
                stats[Len(stats)], benchName)

\* ------------------------------------------------------------------ ranking: records
MaxRecords == 3

BenchmarkA == StatsLine1.name
BenchmarkB == StatsLine3.name

Whole(n) == [num |-> n, den |-> 1]

Entry(time, throughput, mem, allocs) ==
    [time |-> time, throughput |-> throughput, mem |-> mem, allocs |-> allocs]

\* what the tasks can have collected for a solution: its entry for BenchmarkA,
\* its time for BenchmarkB and its code size
Collected(a, timeB, size) ==
    [benchs |-> { << BenchmarkA, a >>, << BenchmarkB, Entry(Whole(timeB), Absent, -1, -1) >> },
     size |-> size]

RecordKinds ==
    { Collected(Entry(Whole(5), Absent, -1, -1), 1, 5),
      Collected(Entry(Whole(5), Absent, -1, -1), 2, 5),
      Collected(Entry(Whole(4), Absent, -1, -1), 1, 5),
      Collected(Entry(Whole(5), Whole(100), -1, -1), 1, 5),
      Collected(Entry(Whole(5), Absent, 128, 3), 1, 5),
      Collected(Entry(Whole(5), Absent, 128, 4), 2, 5),
      Collected(Entry(Whole(5), Absent, -1, -1), 1, 10) }

\* the sequences the tasks can have appended: the i-th record is named i
RECURSIVE Collections(_)
Collections(n) ==
    IF n = 0 THEN { << >> }
    ELSE Collections(n - 1) \cup
         { Append(s, [name |-> n, benchs |-> k.benchs, size |-> k.size]) :
               s \in { x \in Collections(n - 1) : Len(x) = n - 1 }, k \in RecordKinds }

RankInit ==
    /\ PoolInit
    /\ parts = NoParts
    /\ extracted = NotExtracted
    /\ out = << >>
    /\ bstats = NotRun
    /\ unranked \in Collections(MaxRecords)
    /\ ranked = [todo |-> << BenchmarkA, BenchmarkB >>, sstats |-> unranked,
                 rankings |-> << >>]

\* one iteration of `for _, bn := range bnames`: sstats sorted in place for the
\* name, and printed
RankByNextName ==
    /\ ranked.todo # << >>
    /\ LET s == sortStatsByBench(ranked.sstats, Head(ranked.todo))
       IN  ranked' = [todo |-> Tail(ranked.todo), sstats |-> s,
                      rankings |-> Append(ranked.rankings, s)]
    /\ UNCHANGED << out, bstats, unranked, parts, extracted, mainpc, cmd, poolVars, tq, closed,
                    wk, wg, mx, total, idx, uuids, dlVars, benchVars, err, printed, histVars,
                    failed, exitCode >>

RankNext == RankByNextName

\* the ranking loop of benchCmd on each sequence of the family
RankSpec == RankInit /\ [][RankNext]_vars

\* ------------------------------------------------------------------ properties of the ranking
\* the name the k-th sort call is for, and the sequence handed to it
NameOfCall(k) == << BenchmarkA, BenchmarkB >>[k]
InputOfCall(k) == IF k = 1 THEN unranked ELSE ranked.rankings[k - 1]
Calls == 1..Len(ranked.rankings)

\* the key of a record for a name: time, throughput, mem, allocs, code size
Key(r, benchName) ==
    LET e == Get(r.benchs, benchName)
    IN  << e.time, e.throughput, Whole(e.mem), Whole(e.allocs), Whole(r.size) >>

\* x <= y in the lexicographic order of keys
RECURSIVE LexLeq(_, _)
LexLeq(x, y) ==
    IF x = << >> THEN TRUE
    ELSE IF Head(x).num * Head(y).den < Head(y).num * Head(x).den THEN TRUE
    ELSE IF Head(x).num * Head(y).den > Head(y).num * Head(x).den THEN FALSE
    ELSE LexLeq(Tail(x), Tail(y))

SameKey(a, b, benchName) ==
    LexLeq(Key(a, benchName), Key(b, benchName)) /\ LexLeq(Key(b, benchName), Key(a, benchName))

\* the place of the record named like r in the sequence s
Pos(s, r) == CHOOSE i \in 1..Len(s) : s[i].name = r.name

NamesIn(s) == [i \in 1..Len(s) |-> s[i].name]

C27_Stable ==
    /\ \A k \in Calls :
          \A i, j \in 1..Len(InputOfCall(k)) :
              (i < j /\ SameKey(InputOfCall(k)[i], InputOfCall(k)[j], NameOfCall(k))) =>
                  Pos(ranked.rankings[k], InputOfCall(k)[i])
                      < Pos(ranked.rankings[k], InputOfCall(k)[j])
    /\ (/\ Len(ranked.rankings) >= 1
        /\ Len(unranked) = 3
        /\ \A i \in 1..3 : Key(unranked[i], BenchmarkA)
              = << Whole(IF i = 3 THEN 4 ELSE 5), Absent, Whole(-1), Whole(-1), Whole(5) >>)
           => NamesIn(ranked.rankings[1]) = << 3, 1, 2 >>
    /\ (/\ Len(ranked.rankings) >= 1
        /\ Len(unranked) = 2
        /\ \A i \in 1..2 : Key(unranked[i], BenchmarkA)
              = << Whole(5), Absent, Whole(-1), Whole(-1), Whole(IF i = 1 THEN 10 ELSE 5) >>)
           => NamesIn(ranked.rankings[1]) = << 2, 1 >>

\* the first call has moved a faster record in front of two records of one key
C27_Witness ==
    /\ Len(ranked.rankings) >= 1
    /\ Len(unranked) = 3
    /\ SameKey(unranked[1], unranked[2], BenchmarkA)
    /\ NamesIn(ranked.rankings[1]) = << 3, 1, 2 >>

\* a is ranked in front of b although, at equal time, the first optional field
\* that is absent in one of them only is absent in a
AbsentInFront(a, b, benchName) ==
    LET lh == Get(a.benchs, benchName)
        rh == Get(b.benchs, benchName)
    IN  /\ lh.time = rh.time
        /\ \/ (lh.throughput = Absent /\ rh.throughput # Absent)
           \/ (lh.throughput = rh.throughput /\ lh.mem = -1 /\ rh.mem # -1)
           \/ (lh.throughput = rh.throughput /\ lh.mem = rh.mem
                 /\ lh.allocs = -1 /\ rh.allocs # -1)

\* C28: in every ranking, of two records with equal time for the name, one
\* without an optional field and one with it, the record without it comes after
\* the record with it.
C28_AbsentRankedLast ==
    \A k \in Calls :
        \A i, j \in 1..Len(ranked.rankings[k]) :
            i < j => ~AbsentInFront(ranked.rankings[k][i], ranked.rankings[k][j], NameOfCall(k))

\* C29: in the ranking of every name of the list, records with the same key for
\* that name stand in the order in which the tasks appended them, and the
\* ranking is the one the sort gives on the appended sequence itself.
C29_TiesInAppendOrder ==
    \A k \in Calls :
        /\ \A i, j \in 1..Len(unranked) :
              (i < j /\ SameKey(unranked[i], unranked[j], NameOfCall(k))) =>
                  Pos(ranked.rankings[k], unranked[i]) < Pos(ranked.rankings[k], unranked[j])
        /\ ranked.rankings[k] = sortStatsByBench(unranked, NameOfCall(k))

\* ------------------------------------------------------------------ benchCmd: collecting and ranking
\* st.bstats[bn] is not nil
HasEntry(r, benchName) == \E e \in r.benchs : e[1] = benchName

\* one solution was benched before; the names found in the test suite are
\* BenchmarkA and BenchmarkB, and the report of the next solution is any report
CollectInit ==
    /\ PoolInit
    /\ parts = NoParts
    /\ extracted = NotExtracted
    /\ out \in Reports(MaxLines)
    /\ bstats = NotRun
    /\ unranked \in { << [name |-> 1, benchs |-> k.benchs, size |-> k.size] >> :
                          k \in RecordKinds }
    /\ ranked = [todo |-> << BenchmarkA, BenchmarkB >>, sstats |-> << >>, rankings |-> << >>]

\* one iteration of the ranking loop on the records the tasks collected; with
\* two records or more the less function reads lh.time and rh.time of every
\* record, and the read through a nil entry is a run-time panic: the process
\* exits with status 2
RankCollected ==
    /\ bstats.fn = "runBench"
    /\ ranked.todo # << >>
    /\ exitCode = -1
    /\ LET s == IF ranked.rankings = << >> THEN unranked ELSE ranked.sstats
           bn == Head(ranked.todo)
       IN  IF Len(s) >= 2 /\ \E i \in 1..Len(s) : ~HasEntry(s[i], bn)
           THEN /\ exitCode' = 2
                /\ UNCHANGED ranked
           ELSE /\ ranked' = [todo |-> Tail(ranked.todo),
                              sstats |-> sortStatsByBench(s, bn),
                              rankings |-> Append(ranked.rankings, sortStatsByBench(s, bn))]
                /\ UNCHANGED exitCode
    /\ UNCHANGED << out, bstats, unranked, parts, extracted, mainpc, cmd, poolVars, tq, closed,
                    wk, wg, mx, total, idx, uuids, dlVars, benchVars, err, printed, histVars,
                    failed >>

CollectNext == CallRunBench \/ RankCollected

\* a bench task on each report of the family, then the ranking loop
CollectSpec == CollectInit /\ [][CollectNext]_vars

\* C31: every record the tasks collected holds an entry for every name of the
\* discovered list, and the ranking loop never reads through a missing entry.
C31_EveryRecordHoldsEveryName ==
    /\ \A i \in 1..Len(unranked) :
          \A bn \in { BenchmarkA, BenchmarkB } : HasEntry(unranked[i], bn)
    /\ exitCode # 2

\* positions of the main goroutine inside a submit loop, and at a barrier
SubmitPcs == {"submit_pages", "submit_codes", "submit_bench"}
WaitPcs == {"wait_pages", "wait_codes", "wait_bench"}

\* C32: under fair scheduling, with every fetch and every tool run returning,
\* every command comes to its exit: a submit loop that was entered is left, and
\* a barrier that was reached is released.
C32_Terminates ==
    /\ <>(mainpc = "exit")
    /\ (mainpc \in SubmitPcs) ~> (mainpc \notin SubmitPcs)
    /\ (mainpc \in WaitPcs) ~> (mainpc \notin WaitPcs /\ wg = 0)

\* bench came to its exit after its only worker ran two tasks that both took
\* the mutex
C32_Witness ==
    /\ cmd = "bench"
    /\ tqSize = 1
    /\ mainpc = "exit"
    /\ err = "nil"
    /\ Len(sstats) = 2
    /\ finished = submitted

\* the tasks waiting in the queue
Queued == { tq[i] : i \in 1..Len(tq) }

\* the tasks in execution
InExecution == { wk[w].t : w \in Running }

\* C33: every submitted task is in exactly one place: waiting in the queue
\* (once), in execution by one worker, or finished; no page is asked for by two
\* task fetches; the barrier counter is the number of submitted tasks that have
\* not finished, so it is never negative.
C33_TaskRunsOnce ==
    /\ Cardinality(Queued) = Len(tq)
    /\ \A v, w \in Running : wk[v].t = wk[w].t => v = w
    /\ Queued \cap InExecution = {}
    /\ Queued \cap finished = {}
    /\ InExecution \cap finished = {}
    /\ submitted = Queued \cup InExecution \cup finished
    /\ \A p \in PageNumbers : reqs[p] <= 1
    /\ wg >= 0
    /\ mainpc \notin {"run", "spawn", "first_page", "bench_names", "read_dir"} =>
           wg = Cardinality(submitted \ finished)

\* two workers run two tasks at once while a third task has finished
C33_Witness ==
    /\ Cardinality(Running) = 2
    /\ Cardinality(InExecution) = 2
    /\ finished # {}
    /\ wg = 2

\* the solution tasks of download that were submitted
CodeTasks == { t \in submitted : t.kind = "code" }

DiscoveryPcs == {"submit_pages", "wait_pages", "uuids_returned"}

\* identifiers matched by the task fetches of the pages behind page 1
IdsBehindFirstPage == UNION { Range(got[p].ms) : p \in 2..total }

\* C35: page 1 is fetched once for the page count and once more by the task of
\* page 1, and only the task's fetch contributes identifiers: as long as the
\* task of page 1 has not fetched it successfully the set holds identifiers of
\* the later pages only, and when its fetch failed getSolutionUUIDs still
\* returns a nil error with a set that lacks whatever page 1 holds.
C35_OnlyTaskFetchContributes ==
    /\ mainpc \in DiscoveryPcs =>
          /\ marker = "number"
          /\ reqs[1] <= 1
          /\ got[1].st # "ok" => uuids \subseteq IdsBehindFirstPage
    /\ (mainpc = "uuids_returned" /\ total >= 1) =>
          /\ reqs[1] = 1
          /\ got[1].st = "failed" =>
                /\ err = "nil"
                /\ uuids = IdsBehindFirstPage

\* the first fetch read a count of two pages, the task of page 1 failed to
\* fetch it again and page 2 gave two identifiers: discovery returns {a, b}, nil
C35_Witness ==
    /\ mainpc = "uuids_returned"
    /\ marker = "number"
    /\ total = 2
    /\ reqs[1] = 1
    /\ got[1] = FetchFailed
    /\ got[2] = Fetched(<<"a", "b">>)
    /\ uuids = {"a", "b"}
    /\ err = "nil"

\* ------------------------------------------------------------------ progress counters
\* code tasks that reached the got callback
ReachedCallback == { t \in finished \ failed : t.kind = "code" }

\* bench tasks that have appended their record
Appended == { t \in submitted : t.kind = "bench" /\ \E i \in 1..Len(sstats) : sstats[i].name = t.f }

\* C36: under every interleaving the values handed to the progress line are
\* 1, 2, ..., M without a repetition or a gap: in download M is the number of
\* code tasks that reached the callback and equals the counter, in bench the
\* value of a task is the length of the stats sequence right after its own
\* append and M is the number of records appended.
C36_ProgressCountsUp ==
    /\ \A i \in 1..Len(progress) : progress[i] = i
    /\ cmd = "download" =>
          /\ Len(progress) = count
          /\ Len(progress) = Cardinality(ReachedCallback)
    /\ cmd = "bench" =>
          /\ Len(progress) = Len(sstats)
          /\ Len(progress) = Cardinality(Appended)

\* two workers, two solutions downloaded: the progress lines carry 1 and 2
C36_Witness ==
    /\ cmd = "download"
    /\ spawned = 2
    /\ Cardinality(ReachedCallback) = 2
    /\ count = 2
    /\ progress = << 1, 2 >>

\* ------------------------------------------------------------------ extractTestSuite: files announced
\* the file names of the mapping a call returned
NamesReturned == { e[1] : e \in extracted.suite }

\* C37: extractTestSuite returns errNoTestSuite without a mapping, or a mapping
\* with an entry for every file-name start pattern of the test-suite region; a
\* region whose later file name has no end pattern, or no code region behind
\* it, is answered with errNoTestSuite and not with the earlier files alone.
C37_EveryAnnouncedFileOrError ==
    extracted.fn = "extractTestSuite" =>
        \/ /\ extracted.err = errNoTestSuite
           /\ extracted.suite = {}
        \/ /\ extracted.err = "nil"
           /\ NamesAnnounced(SuiteRegion(Page(parts))) \subseteq NamesReturned

\* ------------------------------------------------------------------ extractTestSuite by index: the code behind a name
\* the name of the first file of the region (one character in the page family)
FirstName(region) == << region[Len(testFileNameStartPattern) + 1] >>

\* the region starts with a file whose code start pattern stands directly behind
\* the end pattern of its name
CodeDirectlyBehindName(region) ==
    LET head == testFileNameStartPattern \o FirstName(region) \o testFileNameEndPattern
                    \o codeStartPattern
    IN  /\ Len(region) >= Len(head)
        /\ SubSeq(region, 1, Len(head)) = head

\* the file name starts exactly one entry of the region
AnnouncedOnce(region, name) ==
    Cardinality({ j \in 1..(Len(region) - Len(testFileNameStartPattern)) :
                    SubSeq(region, j, j + Len(testFileNameStartPattern))
                        = testFileNameStartPattern \o name }) = 1

\* C38: extractTestSuite of the index-arithmetic variant looks for the code of a
\* file from the character right behind the end pattern of its name: on a
\* region whose first file has its code start pattern directly behind the name
\* it does not run out of the text, a region of that one file gives the mapping
\* of that file, and a mapping returned pairs the name with the code of its
\* own entry.
C38_CodeScanStartsBehindName ==
    (/\ extracted.fn = "extractTestSuiteByIndex"
     /\ SuiteRegion(Page(parts)) # << >>
     /\ CodeDirectlyBehindName(SuiteRegion(Page(parts)))) =>
        LET region == SuiteRegion(Page(parts))
            name == FirstName(region)
        IN  /\ extracted.err # "panic"
            /\ region = TestFile(<< "a" >>, << >>, << "x" >>) =>
                  /\ extracted.err = "nil"
                  /\ extracted.suite = { << << "a" >>, << "x" >> >> }
            /\ (extracted.err = "nil" /\ AnnouncedOnce(region, name)) =>
                  << name, FirstCodeOf(region, name) >> \in extracted.suite

\* ------------------------------------------------------------------ runBench, counting names and stats
\* `[[:digit:]]+ ns/op\s+[[:digit:]]+ B/op\s+[[:digit:]]+ allocs/op`, the
\* benchStatsRE of the runBench that has no throughput field
benchStatsREInts ==
    Cat(<< Plus(Class(Digit)), Lit(nsPerOp), Plus(Class(Space)),
           Plus(Class(Digit)), Lit(bPerOp), Plus(Class(Space)),
           Plus(Class(Digit)), Lit(allocsPerOp) >>)

ReturnedByCount(made, m, e) ==
    [fn |-> "runBenchByCount", made |-> made, bstats |-> m, err |-> e]

\* fmt.Sscanf(stat, "%d ns/op %d B/op %d allocs/op", ...) on a match of the
\* stats pattern: the three integers; a newline inside the match is an input
\* the format does not accept
Sscanf(stat) ==
    LET mm == Find(benchMemRE, stat, 0)
    IN  [ok |-> Index(stat, << "\n" >>) = -1,
         time |-> ParseInt(FindString(Plus(Class(Digit)), stat)).num,
         mem |-> ParseInt(MemGroup1(stat, mm)).num,
         allocs |-> ParseInt(MemGroup2(stat, mm)).num]

\* the loop over the stats matches, i counted from one; a scan error returns
\* the map filled so far. The entries have no throughput.
RECURSIVE StatsOfMatches(_, _, _, _)
StatsOfMatches(names, stats, i, m) ==
    IF i > Len(stats) THEN ReturnedByCount(TRUE, m, "nil")
    ELSE
        LET sc == Sscanf(stats[i])
            st == [time |-> [num |-> sc.time, den |-> 1], throughput |-> Absent,
                   mem |-> sc.mem, allocs |-> sc.allocs]
        IN  IF ~sc.ok THEN ReturnedByCount(TRUE, m, "scan error")
            ELSE StatsOfMatches(names, stats, i + 1, Store(m, names[i], st))

\* runBench of bench.go on the output of the go tool, given that the tool ran:
\* the names and the stats are matched apart and paired by position
runBenchByCount(text) ==
    LET names == FindAllString(benchNameRE, text)
        stats == FindAllString(benchStatsREInts, text)
    IN  IF Len(names) # Len(stats) THEN ReturnedByCount(FALSE, {}, "panic")
        ELSE StatsOfMatches(names, stats, 1, {})

\* bench task: that runBench on the report; a panic of the task's goroutine
\* ends the process with status 2
CallRunBenchByCount ==
    /\ bstats.fn = "none"
    /\ bstats' = runBenchByCount(Text(out))
    /\ exitCode' = IF bstats'.err = "panic" THEN 2 ELSE exitCode
    /\ UNCHANGED << out, unranked, ranked, parts, extracted, mainpc, cmd, poolVars, tq,
                    closed, wk, wg, mx, total, idx, uuids, dlVars, benchVars, err, printed,
                    histVars, failed >>

BothNext == CallRunBench \/ CallRunBenchByCount

\* both runBench applied once to each report of the family
BothSpec == ParseInit /\ [][BothNext]_vars

\* C39: runBench does not panic on a report: whatever the tool printed, also
\* when the names matched are more or fewer than the stats matched or when a
\* matched line has no time, the call returns a map or an error and the
\* process goes on.
C39_RunBenchNeverPanics ==
    bstats.fn # "none" =>
        /\ bstats.err # "panic"
        /\ exitCode # 2

====
